---- MODULE Spec2Model ----
(***************************************************************************)
(* Soft heap of Kaplan and Zwick as implemented in softheap.c.             *)
(*                                                                         *)
(* Heap shells and trees live in two stores indexed by small integers that *)
(* stand for the addresses malloc returns; 0 is the NULL address.  A tree  *)
(* node is owned by exactly one pointer, so a node pointer is modelled as  *)
(* a sequence that is empty (NULL) or holds the node record it points to.  *)
(* The doubly linked item list of a node is the sequence of its elems,     *)
(* first ... last.                                                         *)
(***************************************************************************)
EXTENDS Integers, Sequences, FiniteSets, TLC

\* ------------------------------------------------------------------ bounds
MaxInserts == 4        \* total number of items ever put into heaps
MaxKey     == 1        \* keys are 0..MaxKey
MaxN       == 9        \* largest n of the sorting scenario (epsilon = 1/n)
MaxMeldHeap == 3       \* items put into each heap of the melding scenario
MaxEpsItems == 2       \* items put into heaps in the scenario of the error parameters

Keys    == 0..MaxKey
HeapIds == 1..2
MaxTrees == IF MaxN > MaxInserts
            THEN (IF MaxN > 2 * MaxMeldHeap THEN MaxN ELSE 2 * MaxMeldHeap)
            ELSE (IF MaxInserts > 2 * MaxMeldHeap THEN MaxInserts ELSE 2 * MaxMeldHeap)
TreeIds == 1..MaxTrees
NULL    == 0
NULLNODE == <<>>

\* error parameters offered to makeheap / makeheap_empty, as fractions num/den
Eps(n, d) == [num |-> n, den |-> d]
Epsilons == {Eps(1, 16), Eps(1, 64), Eps(1, 1)}

\* ------------------------------------------------------------ utilities
RECURSIVE Pow2(_)
Pow2(k) == IF k = 0 THEN 1 ELSE 2 * Pow2(k - 1)

\* ceil(log(epsilon)/log(2)) for 0 < epsilon < 1: minus the largest k with
\* 2^k <= 1/epsilon
RECURSIVE FloorLog2Inv(_, _)
FloorLog2Inv(eps, k) ==
  IF Pow2(k + 1) * eps.num <= eps.den THEN FloorLog2Inv(eps, k + 1) ELSE k

CeilLog2(eps) == 0 - FloorLog2Inv(eps, 0)

leaf(x) == x.left = NULLNODE /\ x.right = NULLNODE

get_r(epsilon) == CeilLog2(epsilon) + 5

swapLR(x) == [x EXCEPT !.left = x.right, !.right = x.left]

\* get_next_size that drops the + 1 of its quotient
get_next_size_rounds_down(rank, prevrank_size, r) ==
  IF rank <= r THEN 1 ELSE (3 * prevrank_size) \div 2

\* get_next_size without the test of the rank against r
get_next_size_ignores_r(rank, prevrank_size, r) == (3 * prevrank_size + 1) \div 2

get_next_size(rank, prevrank_size, r) ==
  IF rank <= r THEN 1 ELSE (3 * prevrank_size + 1) \div 2

\* ------------------------------------------------- heap & item creation
makenode(elem) ==
  [left |-> NULLNODE, right |-> NULLNODE, items |-> <<elem>>,
   ckey |-> elem, rank |-> 0, size |-> 1, nelems |-> 1]

FreeTree == [alloc |-> FALSE, prev |-> NULL, next |-> NULL, sufmin |-> NULL,
             root |-> NULLNODE, rank |-> 0]

\* the address malloc hands out for a new tree
NewTree(tr) == CHOOSE t \in TreeIds : ~tr[t].alloc /\ \A u \in TreeIds : u < t => tr[u].alloc

maketree(tr, T, elem) ==
  [tr EXCEPT ![T] = [alloc |-> TRUE, prev |-> NULL, next |-> NULL, sufmin |-> T,
                     root |-> <<makenode(elem)>>, rank |-> 0]]

NoEps == Eps(0, 1)
NoHeap(st) == [status |-> st, first |-> NULL, rank |-> 0, epsilon |-> NoEps, r |-> 0]

\* the check of makeheap_empty without its upper bound
ValidEps_no_upper_bound(epsilon) == ~(epsilon.num <= 0)

ValidEps(epsilon) == ~(epsilon.num <= 0 \/ epsilon.num >= epsilon.den)

\* the shell makeheap_empty builds once epsilon has passed its check
EmptyShell(epsilon) ==
  [status |-> "live", first |-> NULL, rank |-> -1, epsilon |-> epsilon,
   r |-> get_r(epsilon)]

\* --------------------------------------------- heap structure manipulation
\* moveList that overwrites the list of dst instead of appending to it
moveList_dst_overwrite(src, dst) ==
  [dst EXCEPT !.items = src.items, !.nelems = dst.nelems + src.nelems]

moveList_dst(src, dst) ==
  [dst EXCEPT !.items = dst.items \o src.items, !.nelems = dst.nelems + src.nelems]

moveList_src(src) == [src EXCEPT !.items = <<>>, !.nelems = 0]

\* sift without the assignment x->ckey = x->left->ckey
RECURSIVE sift_keeps_ckey(_)
sift_keeps_ckey(x) ==
  IF x.nelems < x.size /\ ~leaf(x)
  THEN LET x1 == IF x.left = NULLNODE
                    \/ (x.right # NULLNODE /\ x.left[1].ckey > x.right[1].ckey)
                 THEN swapLR(x) ELSE x
           l  == x1.left[1]
           x2 == [x1 EXCEPT !.items = x1.items \o l.items, !.nelems = x1.nelems + l.nelems]
           l2 == [l EXCEPT !.items = <<>>, !.nelems = 0]
           x3 == IF leaf(l2) THEN [x2 EXCEPT !.left = NULLNODE]
                             ELSE [x2 EXCEPT !.left = <<sift_keeps_ckey(l2)>>]
       IN  sift_keeps_ckey(x3)
  ELSE x

\* sift that swaps only when there is no left child, whatever the ckeys
RECURSIVE sift_left_first(_)
sift_left_first(x) ==
  IF x.nelems < x.size /\ ~leaf(x)
  THEN LET x1 == IF x.left = NULLNODE THEN swapLR(x) ELSE x
           l  == x1.left[1]
           x2 == [moveList_dst(l, x1) EXCEPT !.ckey = l.ckey]
           l2 == moveList_src(l)
           x3 == IF leaf(l2) THEN [x2 EXCEPT !.left = NULLNODE]
                             ELSE [x2 EXCEPT !.left = <<sift_left_first(l2)>>]
       IN  sift_left_first(x3)
  ELSE x

\* sift with an if in place of its while: one pull and no more
RECURSIVE sift_one_pull(_)
sift_one_pull(x) ==
  IF x.nelems < x.size /\ ~leaf(x)
  THEN LET x1 == IF x.left = NULLNODE
                    \/ (x.right # NULLNODE /\ x.left[1].ckey > x.right[1].ckey)
                 THEN swapLR(x) ELSE x
           l  == x1.left[1]
           x2 == [moveList_dst(l, x1) EXCEPT !.ckey = l.ckey]
           l2 == moveList_src(l)
       IN  IF leaf(l2) THEN [x2 EXCEPT !.left = NULLNODE]
                       ELSE [x2 EXCEPT !.left = <<sift_one_pull(l2)>>]
  ELSE x

\* sift that leaves an emptied leaf child where it is instead of freeing it,
\* and gives up when the child it picks has nothing to hand over
RECURSIVE sift_keeps_leaf(_)
sift_keeps_leaf(x) ==
  IF x.nelems < x.size /\ ~leaf(x)
  THEN LET x1 == IF x.left = NULLNODE
                    \/ (x.right # NULLNODE /\ x.left[1].ckey > x.right[1].ckey)
                 THEN swapLR(x) ELSE x
           l  == x1.left[1]
           x2 == [moveList_dst(l, x1) EXCEPT !.ckey = l.ckey]
           l2 == moveList_src(l)
           x3 == IF leaf(l2) THEN [x2 EXCEPT !.left = <<l2>>]
                             ELSE [x2 EXCEPT !.left = <<sift_keeps_leaf(l2)>>]
       IN  IF l.items = <<>> THEN x1 ELSE sift_keeps_leaf(x3)
  ELSE x

\* sift whose loop runs while x holds less than half its size, the threshold
\* of extract_min_with_ckey, instead of less than its size
RECURSIVE sift_to_half(_)
sift_to_half(x) ==
  IF 2 * x.nelems < x.size /\ ~leaf(x)
  THEN LET x1 == IF x.left = NULLNODE
                    \/ (x.right # NULLNODE /\ x.left[1].ckey > x.right[1].ckey)
                 THEN swapLR(x) ELSE x
           l  == x1.left[1]
           x2 == [moveList_dst(l, x1) EXCEPT !.ckey = l.ckey]
           l2 == moveList_src(l)
           x3 == IF leaf(l2) THEN [x2 EXCEPT !.left = NULLNODE]
                             ELSE [x2 EXCEPT !.left = <<sift_to_half(l2)>>]
       IN  sift_to_half(x3)
  ELSE x

\* sift with its comparison turned around: it pulls from the child of larger
\* ckey
RECURSIVE sift_larger_child(_)
sift_larger_child(x) ==
  IF x.nelems < x.size /\ ~leaf(x)
  THEN LET x1 == IF x.left = NULLNODE
                    \/ (x.right # NULLNODE /\ x.left[1].ckey < x.right[1].ckey)
                 THEN swapLR(x) ELSE x
           l  == x1.left[1]
           x2 == [moveList_dst(l, x1) EXCEPT !.ckey = l.ckey]
           l2 == moveList_src(l)
           x3 == IF leaf(l2) THEN [x2 EXCEPT !.left = NULLNODE]
                             ELSE [x2 EXCEPT !.left = <<sift_larger_child(l2)>>]
       IN  sift_larger_child(x3)
  ELSE x

RECURSIVE sift(_)
sift(x) ==
  IF x.nelems < x.size /\ ~leaf(x)
  THEN LET x1 == IF x.left = NULLNODE
                    \/ (x.right # NULLNODE /\ x.left[1].ckey > x.right[1].ckey)
                 THEN swapLR(x) ELSE x
           l  == x1.left[1]
           x2 == [moveList_dst(l, x1) EXCEPT !.ckey = l.ckey]
           l2 == moveList_src(l)
           x3 == IF leaf(l2) THEN [x2 EXCEPT !.left = NULLNODE]
                             ELSE [x2 EXCEPT !.left = <<sift(l2)>>]
       IN  sift(x3)
  ELSE x

\* TRUE iff no call of moveList made by sift(x) trips assert(src->first != NULL)
RECURSIVE sift_asserts_hold(_)
sift_asserts_hold(x) ==
  IF x.nelems < x.size /\ ~leaf(x)
  THEN LET x1 == IF x.left = NULLNODE
                    \/ (x.right # NULLNODE /\ x.left[1].ckey > x.right[1].ckey)
                 THEN swapLR(x) ELSE x
           l  == x1.left[1]
           x2 == [moveList_dst(l, x1) EXCEPT !.ckey = l.ckey]
           l2 == moveList_src(l)
           x3 == IF leaf(l2) THEN [x2 EXCEPT !.left = NULLNODE]
                             ELSE [x2 EXCEPT !.left = <<sift(l2)>>]
       IN  /\ l.items # <<>>
           /\ (leaf(l2) \/ sift_asserts_hold(l2))
           /\ sift_asserts_hold(x3)
  ELSE TRUE

combine_node(x, y, r) ==
  [left |-> <<x>>, right |-> <<y>>, items |-> <<>>, ckey |-> 0,
   rank |-> x.rank + 1, size |-> get_next_size(x.rank + 1, x.size, r), nelems |-> 0]

combine(x, y, r) == sift(combine_node(x, y, r))

\* A memory is [heap |-> shells, tree |-> trees, fault |-> how the process
\* died, "none" while it runs].  The operations below thread it through the
\* statements of the C functions in program order.
Fault(m, f) == [m EXCEPT !.fault = f]

insert_tree(m, into_heap, inserted, successor) ==
  LET t1 == [m.tree EXCEPT ![inserted].next = successor]
      sp == t1[successor].prev
      h2 == IF sp = NULL THEN [m.heap EXCEPT ![into_heap].first = inserted] ELSE m.heap
      t2 == IF sp = NULL THEN t1 ELSE [t1 EXCEPT ![sp].next = inserted]
      t3 == [t2 EXCEPT ![inserted].prev = t2[successor].prev]
      t4 == [t3 EXCEPT ![successor].prev = inserted]
  IN  [m EXCEPT !.heap = h2, !.tree = t4]

remove_tree(m, outof_heap, removed) ==
  LET rp == m.tree[removed].prev
      h1 == IF rp = NULL THEN [m.heap EXCEPT ![outof_heap].first = m.tree[removed].next]
                         ELSE m.heap
      t1 == IF rp = NULL THEN m.tree ELSE [m.tree EXCEPT ![rp].next = m.tree[removed].next]
      rn == t1[removed].next
      t2 == IF rn # NULL THEN [t1 EXCEPT ![rn].prev = t1[removed].prev] ELSE t1
  IN  [m EXCEPT !.heap = h1, !.tree = t2]

\* update_suffix_min that repairs T alone and not the trees before it
update_suffix_min_once(tr, T) ==
  IF T # NULL
  THEN IF tr[T].next = NULL
          \/ tr[T].root[1].ckey <= tr[tr[tr[T].next].sufmin].root[1].ckey
       THEN [tr EXCEPT ![T].sufmin = T]
       ELSE [tr EXCEPT ![T].sufmin = tr[tr[T].next].sufmin]
  ELSE tr

\* update_suffix_min with its comparison turned around
RECURSIVE update_suffix_min_flipped(_, _)
update_suffix_min_flipped(tr, T) ==
  IF T # NULL
  THEN LET t1 == IF tr[T].next = NULL
                    \/ tr[T].root[1].ckey >= tr[tr[tr[T].next].sufmin].root[1].ckey
                 THEN [tr EXCEPT ![T].sufmin = T]
                 ELSE [tr EXCEPT ![T].sufmin = tr[tr[T].next].sufmin]
       IN  update_suffix_min_flipped(t1, t1[T].prev)
  ELSE tr

RECURSIVE update_suffix_min(_, _)
update_suffix_min(tr, T) ==
  IF T # NULL
  THEN LET t1 == IF tr[T].next = NULL
                    \/ tr[T].root[1].ckey <= tr[tr[tr[T].next].sufmin].root[1].ckey
                 THEN [tr EXCEPT ![T].sufmin = T]
                 ELSE [tr EXCEPT ![T].sufmin = tr[tr[T].next].sufmin]
       IN  update_suffix_min(t1, t1[T].prev)
  ELSE tr

\* inner loop of merge_into: while(currQ->rank < currP->rank) currQ = currQ->next;
\* yields NULL when the walk runs off the end of Q's root list
\* the inner loop with <= for <: while(currQ->rank <= currP->rank)
RECURSIVE merge_into_advance_past_equal(_, _, _)
merge_into_advance_past_equal(tr, currQ, rankP) ==
  IF currQ = NULL THEN NULL
  ELSE IF tr[currQ].rank <= rankP
       THEN merge_into_advance_past_equal(tr, tr[currQ].next, rankP)
  ELSE currQ

RECURSIVE merge_into_advance(_, _, _)
merge_into_advance(tr, currQ, rankP) ==
  IF currQ = NULL THEN NULL
  ELSE IF tr[currQ].rank < rankP THEN merge_into_advance(tr, tr[currQ].next, rankP)
  ELSE currQ

RECURSIVE merge_into_loop(_, _, _, _)
merge_into_loop(m, Q, currP, currQ) ==
  IF currP = NULL THEN m
  ELSE LET cq == merge_into_advance(m.tree, currQ, m.tree[currP].rank)
           next == m.tree[currP].next
       IN  IF cq = NULL THEN Fault(m, "nullderef")
           ELSE merge_into_loop(insert_tree(m, Q, currP, cq), Q, next, cq)

merge_into(m, P, Q) == merge_into_loop(m, Q, m.heap[P].first, m.heap[Q].first)

\* the carry branch without curr->rank = curr->root->rank
set_root_keeps_rank(m, T, z) == [m EXCEPT !.tree[T].root = <<z>>]

set_root(m, T, z) == [m EXCEPT !.tree[T].root = <<z>>, !.tree[T].rank = z.rank]

\* repeated_combine without free(tofree)
free_tree_leaks(m, T) == m

free_tree(m, T) == [m EXCEPT !.tree[T] = FreeTree]

\* the while loop of repeated_combine; yields the memory and the final curr
RECURSIVE repeated_combine_loop(_, _, _, _, _)
repeated_combine_carry(m, Q, curr, nx, smaller_rank, r) ==
  IF ~sift_asserts_hold(combine_node(m.tree[curr].root[1], m.tree[nx].root[1], r))
  THEN [m |-> Fault(m, "assert"), curr |-> curr]
  ELSE repeated_combine_loop(
         free_tree(
           remove_tree(
             set_root(m, curr, combine(m.tree[curr].root[1], m.tree[nx].root[1], r)),
             Q, nx),
           nx),
         Q, curr, smaller_rank, r)

\* the loop without the case of three trees of one rank: the first two are
\* combined
repeated_combine_loop_pairs(m, Q, curr, smaller_rank, r) ==
  IF m.tree[curr].next = NULL THEN [m |-> m, curr |-> curr]
  ELSE IF m.tree[curr].rank # m.tree[m.tree[curr].next].rank
       THEN IF m.tree[curr].rank > smaller_rank THEN [m |-> m, curr |-> curr]
            ELSE repeated_combine_loop(m, Q, m.tree[curr].next, smaller_rank, r)
       ELSE repeated_combine_carry(m, Q, curr, m.tree[curr].next, smaller_rank, r)

repeated_combine_loop(m, Q, curr, smaller_rank, r) ==
  IF m.tree[curr].next = NULL THEN [m |-> m, curr |-> curr]
  ELSE LET tr  == m.tree
           nx  == tr[curr].next
           two == tr[curr].rank = tr[nx].rank
           three == two /\ tr[nx].next # NULL /\ tr[curr].rank = tr[tr[nx].next].rank
       IN  IF ~two
           THEN IF tr[curr].rank > smaller_rank THEN [m |-> m, curr |-> curr]
                ELSE repeated_combine_loop(m, Q, nx, smaller_rank, r)
           ELSE IF ~three
           THEN repeated_combine_carry(m, Q, curr, nx, smaller_rank, r)
           ELSE repeated_combine_loop(m, Q, nx, smaller_rank, r)

\* repeated_combine without its closing update_suffix_min(curr)
repeated_combine_end_stale_sufmin(res, Q) ==
  IF res.m.fault # "none" THEN res.m
  ELSE [res.m EXCEPT
          !.heap[Q].rank = IF res.m.tree[res.curr].rank > @
                           THEN res.m.tree[res.curr].rank ELSE @]

\* repeated_combine without the update of Q->rank
repeated_combine_end_keeps_rank(res, Q) ==
  IF res.m.fault # "none" THEN res.m
  ELSE [res.m EXCEPT !.tree = update_suffix_min(@, res.curr)]

\* the statements of repeated_combine after its loop
repeated_combine_end(res, Q) ==
  IF res.m.fault # "none" THEN res.m
  ELSE [res.m EXCEPT
          !.heap[Q].rank = IF res.m.tree[res.curr].rank > @
                           THEN res.m.tree[res.curr].rank ELSE @,
          !.tree = update_suffix_min(@, res.curr)]

repeated_combine(m, Q, smaller_rank, r) ==
  IF m.heap[Q].first = NULL THEN Fault(m, "nullderef")
  ELSE repeated_combine_end(
         repeated_combine_loop(m, Q, m.heap[Q].first, smaller_rank, r), Q)

extract_elem_result(x) == Head(x.items)

extract_elem(x) == [x EXCEPT !.items = Tail(x.items), !.nelems = x.nelems - 1]

\* ---------------------------------------------------- client-side operations
ShellIds == 1..(Cardinality(HeapIds) + 1)

\* the address malloc hands out for a new heap shell
NewShell(hp) ==
  CHOOSE s \in ShellIds : hp[s].status # "live"
                          /\ \A u \in ShellIds : u < s => hp[u].status = "live"

makeheap_empty(m, s, epsilon) ==
  IF ~ValidEps(epsilon) THEN Fault(m, "error")
  ELSE [m EXCEPT !.heap[s] = EmptyShell(epsilon)]

makeheap(m, s, elem, epsilon) ==
  LET m1 == makeheap_empty(m, s, epsilon)
      T  == NewTree(m1.tree)
  IN  IF m1.fault # "none" THEN m1
      ELSE [m1 EXCEPT !.tree = maketree(m1.tree, T, elem),
                      !.heap[s].first = T, !.heap[s].rank = 0]

empty(m, P) == m.heap[P].first = NULL

\* eps_off > 0.001 with eps_off = 1 - min_eps/max_eps, on fractions
max(x, y) == IF x.num * y.den >= y.num * x.den THEN x ELSE y
min(x, y) == IF x.num * y.den <= y.num * x.den THEN x ELSE y
eps_off_too_big(min_eps, max_eps) ==
  1000 * (max_eps.num * min_eps.den - min_eps.num * max_eps.den)
     > max_eps.num * min_eps.den

\* one branch of meld: merge_into(L, H); repeated_combine(H, L->rank, H->r);
\* free(L); result = H.  Yields the memory and the handle meld returns.
\* the branch without free(L)
meld_freed_keeps_shell(m2, L, H) ==
  IF m2.fault # "none" THEN [m |-> m2, result |-> NULL]
  ELSE [m |-> m2, result |-> H]

\* the branch with the epsilon of L copied into H before free(L)
meld_freed_takes_eps(m2, L, H) ==
  IF m2.fault # "none" THEN [m |-> m2, result |-> NULL]
  ELSE [m |-> [m2 EXCEPT !.heap[L] = NoHeap("freed"),
                         !.heap[H].epsilon = m2.heap[L].epsilon],
        result |-> H]

meld_freed(m2, L, H) ==
  IF m2.fault # "none" THEN [m |-> m2, result |-> NULL]
  ELSE [m |-> [m2 EXCEPT !.heap[L] = NoHeap("freed")], result |-> H]

meld_combined(m1, L, H) ==
  IF m1.fault # "none" THEN m1
  ELSE repeated_combine(m1, H, m1.heap[L].rank, m1.heap[H].r)

meld_into(m, L, H) == meld_freed(meld_combined(merge_into(m, L, H), L, H), L, H)

\* meld with the one-sided check P->epsilon - Q->epsilon > 0.001
meld_signed_eps_check(m, P, Q) ==
  IF 1000 * (m.heap[P].epsilon.num * m.heap[Q].epsilon.den
             - m.heap[Q].epsilon.num * m.heap[P].epsilon.den)
       > m.heap[P].epsilon.den * m.heap[Q].epsilon.den
  THEN [m |-> Fault(m, "error"), result |-> NULL]
  ELSE IF m.heap[P].rank >= m.heap[Q].rank
       THEN meld_into(m, Q, P)
       ELSE meld_into(m, P, Q)

\* meld that melds P into Q on a tie of ranks
meld_tie_frees_P(m, P, Q) ==
  IF eps_off_too_big(min(m.heap[P].epsilon, m.heap[Q].epsilon),
                     max(m.heap[P].epsilon, m.heap[Q].epsilon))
  THEN [m |-> Fault(m, "error"), result |-> NULL]
  ELSE IF m.heap[P].rank > m.heap[Q].rank
       THEN meld_into(m, Q, P)
       ELSE meld_into(m, P, Q)

meld(m, P, Q) ==
  IF eps_off_too_big(min(m.heap[P].epsilon, m.heap[Q].epsilon),
                     max(m.heap[P].epsilon, m.heap[Q].epsilon))
  THEN [m |-> Fault(m, "error"), result |-> NULL]
  ELSE IF m.heap[P].rank >= m.heap[Q].rank
       THEN meld_into(m, Q, P)
       ELSE meld_into(m, P, Q)

\* insert whose empty-heap branch leaves out P->rank = 0
insert_keeps_rank(m, P, elem) ==
  IF empty(m, P)
  THEN LET T == NewTree(m.tree)
       IN  [m EXCEPT !.tree = maketree(m.tree, T, elem), !.heap[P].first = T]
  ELSE LET s == NewShell(m.heap)
       IN  meld(makeheap(m, s, elem, m.heap[P].epsilon), P, s).m

insert(m, P, elem) ==
  IF empty(m, P)
  THEN LET T == NewTree(m.tree)
       IN  [m EXCEPT !.tree = maketree(m.tree, T, elem),
                     !.heap[P].first = T, !.heap[P].rank = 0]
  ELSE LET s == NewShell(m.heap)
       IN  meld(makeheap(m, s, elem, m.heap[P].epsilon), P, s).m

\* the same branch without the reset of P->rank
extract_drop_tree_keeps_rank(m1, P, T) ==
  [m1 EXCEPT
     !.tree = [(IF m1.tree[T].prev # NULL THEN update_suffix_min(@, m1.tree[T].prev) ELSE @)
                 EXCEPT ![T] = FreeTree]]

\* the branch of extract_min_with_ckey that destroys the tree T, after
\* free(x) and remove_tree(P, T)
extract_drop_tree(m1, P, T) ==
  LET tn == m1.tree[T].next
      tp == m1.tree[T].prev
  IN  [m1 EXCEPT
         !.heap[P].rank = IF tn = NULL
                          THEN IF tp = NULL THEN -1 ELSE m1.tree[tp].rank
                          ELSE @,
         !.tree = [(IF tp # NULL THEN update_suffix_min(@, tp) ELSE @)
                     EXCEPT ![T] = FreeTree]]

extract_resifted(m, T, x) ==
  [m EXCEPT !.tree = update_suffix_min([@ EXCEPT ![T].root = <<x>>], T)]

\* extract_min_with_ckey that leaves an emptied leaf root in the root list
extract_repair_keeps_empty(m, P, T, e, x) ==
  IF x.nelems <= x.size \div 2 /\ ~leaf(x)
  THEN IF ~sift_asserts_hold(x)
       THEN [m |-> Fault(m, "assert"), e |-> e, ckey |-> x.ckey]
       ELSE [m |-> extract_resifted(m, T, sift(x)), e |-> e, ckey |-> x.ckey]
  ELSE [m |-> [m EXCEPT !.tree[T].root = <<x>>], e |-> e, ckey |-> x.ckey]

\* extract_min_with_ckey that destroys the tree of every deficient leaf root,
\* without the test x->nelems == 0
extract_repair_drops_leaf(m, P, T, e, x) ==
  IF x.nelems <= x.size \div 2
  THEN IF ~leaf(x)
       THEN IF ~sift_asserts_hold(x)
            THEN [m |-> Fault(m, "assert"), e |-> e, ckey |-> x.ckey]
            ELSE [m |-> extract_resifted(m, T, sift(x)), e |-> e, ckey |-> x.ckey]
       ELSE [m |-> extract_drop_tree(remove_tree(m, P, T), P, T), e |-> e, ckey |-> x.ckey]
  ELSE [m |-> [m EXCEPT !.tree[T].root = <<x>>], e |-> e, ckey |-> x.ckey]

\* extract_min_with_ckey from extract_elem on: x is the root after it, e the
\* element taken.  Yields the memory, the element returned and the value
\* stored in *ckey_into.
extract_repair(m, P, T, e, x) ==
  IF x.nelems <= x.size \div 2
  THEN IF ~leaf(x)
       THEN IF ~sift_asserts_hold(x)
            THEN [m |-> Fault(m, "assert"), e |-> e, ckey |-> x.ckey]
            ELSE [m |-> extract_resifted(m, T, sift(x)), e |-> e, ckey |-> x.ckey]
       ELSE IF x.nelems = 0
       THEN [m |-> extract_drop_tree(remove_tree(m, P, T), P, T), e |-> e, ckey |-> x.ckey]
       ELSE [m |-> [m EXCEPT !.tree[T].root = <<x>>], e |-> e, ckey |-> x.ckey]
  ELSE [m |-> [m EXCEPT !.tree[T].root = <<x>>], e |-> e, ckey |-> x.ckey]

extract_from(m, P, T) ==
  IF T = NULL THEN [m |-> Fault(m, "nullderef"), e |-> -1, ckey |-> -1]
  ELSE IF ~m.tree[T].alloc THEN [m |-> Fault(m, "useafterfree"), e |-> -1, ckey |-> -1]
  ELSE IF m.tree[T].root[1].items = <<>>
  THEN [m |-> Fault(m, "assert"), e |-> -1, ckey |-> -1]
  ELSE extract_repair(m, P, T, extract_elem_result(m.tree[T].root[1]),
                      extract_elem(m.tree[T].root[1]))

\* extract_min_with_ckey without the test of empty(P): P->first->sufmin is
\* read whatever P->first is
extract_min_with_ckey_unchecked(m, P) ==
  extract_from(m, P, IF empty(m, P) THEN NULL ELSE m.tree[m.heap[P].first].sufmin)

extract_min_with_ckey(m, P) ==
  IF empty(m, P) THEN [m |-> Fault(m, "error"), e |-> -1, ckey |-> -1]
  ELSE extract_from(m, P, m.tree[m.heap[P].first].sufmin)

drop_ckey(res) == [m |-> res.m, e |-> res.e]

\* extract_min that returns the value left in filler
extract_min_returns_filler(m, P) ==
  [m |-> extract_min_with_ckey(m, P).m, e |-> extract_min_with_ckey(m, P).ckey]

extract_min(m, P) == drop_ckey(extract_min_with_ckey(m, P))

\* destroy_heap, whose definition is not part of softheap.c: every node of
\* the forest and its item cells are freed post-order, then every tree shell,
\* then the heap shell.  destroy_node yields the number of nodes and of item
\* cells freed under x.
RECURSIVE destroy_node(_)
destroy_node(x) ==
  LET l == IF x.left = NULLNODE THEN [nodes |-> 0, cells |-> 0] ELSE destroy_node(x.left[1])
      r == IF x.right = NULLNODE THEN [nodes |-> 0, cells |-> 0] ELSE destroy_node(x.right[1])
  IN  [nodes |-> l.nodes + r.nodes + 1, cells |-> l.cells + r.cells + Len(x.items)]

destroy_count(freed, under) ==
  [nodes |-> freed.nodes + under.nodes, cells |-> freed.cells + under.cells,
   trees |-> freed.trees + 1]

\* frees the trees from T on; yields the tree store and what was freed
RECURSIVE destroy_trees(_, _, _)
destroy_trees(tr, T, freed) ==
  IF T = NULL THEN [tree |-> tr, freed |-> freed]
  ELSE destroy_trees([tr EXCEPT ![T] = FreeTree], tr[T].next,
                     destroy_count(freed, destroy_node(tr[T].root[1])))

destroy_forest(m, P) ==
  destroy_trees(m.tree, m.heap[P].first, [nodes |-> 0, cells |-> 0, trees |-> 0])

destroy_shell(m, P, forest) ==
  [m |-> [m EXCEPT !.tree = forest.tree, !.heap[P] = NoHeap("freed")],
   freed |-> forest.freed]

destroy_heap(m, P) == destroy_shell(m, P, destroy_forest(m, P))

\* which branch the loop of repeated_combine takes with curr at the head
LoopCase(m, curr, smaller_rank) ==
  LET tr == m.tree
      nx == tr[curr].next
  IN  IF nx = NULL THEN "end"
      ELSE IF tr[curr].rank # tr[nx].rank
           THEN IF tr[curr].rank > smaller_rank THEN "break" ELSE "advance"
      ELSE IF tr[nx].next # NULL /\ tr[curr].rank = tr[tr[nx].next].rank
           THEN "three" ELSE "carry"

\* the memory after the carry branch has combined curr with its successor
CarryStep(m, Q, curr, r) ==
  LET nx == m.tree[curr].next
  IN  free_tree(remove_tree(set_root(m, curr,
                  combine(m.tree[curr].root[1], m.tree[nx].root[1], r)), Q, nx), nx)

\* the memory and curr at the head of each iteration of the loop, in order;
\* the last one is where the loop is left
RECURSIVE LoopStates(_, _, _, _, _)
LoopStates(m, Q, curr, smaller_rank, r) ==
  <<[m |-> m, curr |-> curr]>> \o
  CASE LoopCase(m, curr, smaller_rank) \in {"end", "break"} -> <<>>
    [] LoopCase(m, curr, smaller_rank) \in {"advance", "three"} ->
         LoopStates(m, Q, m.tree[curr].next, smaller_rank, r)
    [] LoopCase(m, curr, smaller_rank) = "carry" ->
         LoopStates(CarryStep(m, Q, curr, r), Q, curr, smaller_rank, r)

\* ------------------------------------------- nodes and cells at addresses
\* The operations above carry a node as a value: its list as a sequence, its
\* children inside it.  Below the same functions are written over the objects
\* malloc returns: a pool is [node |-> struct TREENODE at each node address,
\* cell |-> struct LISTCELL at each cell address, rootof |-> the root field of
\* each tree, fault |-> the first invalid access, ret |-> the value the last
\* function returned, on |-> whether the scenario follows the objects].
NodeAddrs == 1..(2 * MaxInserts)
CellAddrs == 1..MaxInserts

FreeNode == [alloc |-> FALSE, left |-> NULL, right |-> NULL, first |-> NULL,
             last |-> NULL, ckey |-> 0, rank |-> 0, size |-> 0, nelems |-> 0]
FreeCell == [alloc |-> FALSE, elem |-> 0, prev |-> NULL, next |-> NULL]

EmptyPool(on) ==
  [on |-> on, node |-> [a \in NodeAddrs |-> FreeNode],
   cell |-> [c \in CellAddrs |-> FreeCell],
   rootof |-> [t \in TreeIds |-> NULL], fault |-> "none", ret |-> 0]

\* the addresses malloc hands out for a new node and a new cell
NewNode(nd) == CHOOSE a \in NodeAddrs : ~nd[a].alloc /\ \A u \in NodeAddrs : u < a => nd[u].alloc
NewCell(cl) == CHOOSE c \in CellAddrs : ~cl[c].alloc /\ \A u \in CellAddrs : u < c => cl[u].alloc

NodeLive(pl, a) == a \in NodeAddrs /\ pl.node[a].alloc
CellLive(pl, c) == c \in CellAddrs /\ pl.cell[c].alloc

\* the first invalid access ends the run of the pool
PoolFault(pl, f) == IF pl.fault = "none" THEN [pl EXCEPT !.fault = f] ELSE pl
BadAccess(a) == IF a = NULL THEN "nullderef" ELSE "useafterfree"

free_node(pl, a) ==
  IF pl.fault # "none" \/ a = NULL THEN pl
  ELSE IF ~NodeLive(pl, a) THEN PoolFault(pl, "doublefree")
  ELSE [pl EXCEPT !.node[a] = FreeNode]

free_cell(pl, c) ==
  IF pl.fault # "none" \/ c = NULL THEN pl
  ELSE IF ~CellLive(pl, c) THEN PoolFault(pl, "doublefree")
  ELSE [pl EXCEPT !.cell[c] = FreeCell]

addcell_at(pl, elem, listend) ==
  IF pl.fault # "none" THEN pl
  ELSE IF listend # NULL /\ ~CellLive(pl, listend) THEN PoolFault(pl, "useafterfree")
  ELSE LET c == NewCell(pl.cell)
       IN  [pl EXCEPT
              !.cell = [(IF listend # NULL THEN [@ EXCEPT ![listend].next = c] ELSE @)
                          EXCEPT ![c] = [alloc |-> TRUE, elem |-> elem,
                                         prev |-> listend, next |-> NULL]],
              !.ret = c]

makenode_at(pl, elem) ==
  LET x  == NewNode(pl.node)
      p1 == addcell_at(pl, elem, NULL)
  IN  IF p1.fault # "none" THEN p1
      ELSE [p1 EXCEPT !.node[x] = [alloc |-> TRUE, left |-> NULL, right |-> NULL,
                                   first |-> p1.ret, last |-> p1.ret, ckey |-> elem,
                                   rank |-> 0, size |-> 1, nelems |-> 1],
                      !.ret = x]

\* moveList without the statement that sets dst->first when dst is empty
moveList_at_keeps_first(pl, src, dst) ==
  IF pl.fault # "none" THEN pl
  ELSE IF ~NodeLive(pl, src) THEN PoolFault(pl, BadAccess(src))
  ELSE IF ~NodeLive(pl, dst) THEN PoolFault(pl, BadAccess(dst))
  ELSE IF pl.node[src].first = NULL THEN PoolFault(pl, "assert")
  ELSE IF pl.node[dst].last # NULL /\ ~CellLive(pl, pl.node[dst].last)
       THEN PoolFault(pl, "useafterfree")
  ELSE IF ~CellLive(pl, pl.node[src].first) THEN PoolFault(pl, "useafterfree")
  ELSE LET c1 == IF pl.node[dst].last # NULL
                 THEN [pl.cell EXCEPT ![pl.node[dst].last].next = pl.node[src].first]
                 ELSE pl.cell
           n1 == pl.node
           c2 == [c1 EXCEPT ![n1[src].first].prev = n1[dst].last]
           n2 == [n1 EXCEPT ![dst].last = n1[src].last]
           n3 == [n2 EXCEPT ![dst].nelems = n2[dst].nelems + n2[src].nelems]
           n4 == [n3 EXCEPT ![src].nelems = 0]
           n5 == [n4 EXCEPT ![src].first = NULL, ![src].last = NULL]
       IN  [pl EXCEPT !.cell = c2, !.node = n5]

\* moveList, statement by statement
moveList_at(pl, src, dst) ==
  IF pl.fault # "none" THEN pl
  ELSE IF ~NodeLive(pl, src) THEN PoolFault(pl, BadAccess(src))
  ELSE IF ~NodeLive(pl, dst) THEN PoolFault(pl, BadAccess(dst))
  ELSE IF pl.node[src].first = NULL THEN PoolFault(pl, "assert")
  ELSE IF pl.node[dst].last # NULL /\ ~CellLive(pl, pl.node[dst].last)
       THEN PoolFault(pl, "useafterfree")
  ELSE IF ~CellLive(pl, pl.node[src].first) THEN PoolFault(pl, "useafterfree")
  ELSE LET c1 == IF pl.node[dst].last # NULL
                 THEN [pl.cell EXCEPT ![pl.node[dst].last].next = pl.node[src].first]
                 ELSE pl.cell
           n1 == IF pl.node[dst].first = NULL
                 THEN [pl.node EXCEPT ![dst].first = pl.node[src].first]
                 ELSE pl.node
           c2 == [c1 EXCEPT ![n1[src].first].prev = n1[dst].last]
           n2 == [n1 EXCEPT ![dst].last = n1[src].last]
           n3 == [n2 EXCEPT ![dst].nelems = n2[dst].nelems + n2[src].nelems]
           n4 == [n3 EXCEPT ![src].nelems = 0]
           n5 == [n4 EXCEPT ![src].first = NULL, ![src].last = NULL]
       IN  [pl EXCEPT !.cell = c2, !.node = n5]

leaf_at(pl, x) == pl.node[x].left = NULL /\ pl.node[x].right = NULL

\* sift without x->left = NULL after free(x->left)
RECURSIVE sift_at_keeps_left(_, _)
sift_at_keeps_left(pl, x) ==
  IF pl.fault # "none" THEN pl
  ELSE IF ~NodeLive(pl, x) THEN PoolFault(pl, BadAccess(x))
  ELSE IF ~(pl.node[x].nelems < pl.node[x].size /\ ~leaf_at(pl, x)) THEN pl
  ELSE LET n == pl.node[x]
       IN  IF (n.left # NULL /\ ~NodeLive(pl, n.left))
              \/ (n.right # NULL /\ ~NodeLive(pl, n.right))
           THEN PoolFault(pl, "useafterfree")
           ELSE LET p1 == IF n.left = NULL
                             \/ (n.right # NULL
                                 /\ pl.node[n.left].ckey > pl.node[n.right].ckey)
                          THEN [pl EXCEPT !.node[x].left = n.right,
                                          !.node[x].right = n.left]
                          ELSE pl
                    l  == p1.node[x].left
                    p2 == moveList_at(p1, l, x)
                IN  IF p2.fault # "none" THEN p2
                    ELSE LET p3 == [p2 EXCEPT !.node[x].ckey = p2.node[l].ckey]
                             p4 == IF leaf_at(p3, l)
                                   THEN free_node(p3, l)
                                   ELSE sift_at_keeps_left(p3, l)
                         IN  sift_at_keeps_left(p4, x)

RECURSIVE sift_at(_, _)
sift_at(pl, x) ==
  IF pl.fault # "none" THEN pl
  ELSE IF ~NodeLive(pl, x) THEN PoolFault(pl, BadAccess(x))
  ELSE IF ~(pl.node[x].nelems < pl.node[x].size /\ ~leaf_at(pl, x)) THEN pl
  ELSE LET n == pl.node[x]
       IN  IF (n.left # NULL /\ ~NodeLive(pl, n.left))
              \/ (n.right # NULL /\ ~NodeLive(pl, n.right))
           THEN PoolFault(pl, "useafterfree")
           ELSE LET p1 == IF n.left = NULL
                             \/ (n.right # NULL
                                 /\ pl.node[n.left].ckey > pl.node[n.right].ckey)
                          THEN [pl EXCEPT !.node[x].left = n.right,
                                          !.node[x].right = n.left]
                          ELSE pl
                    l  == p1.node[x].left
                    p2 == moveList_at(p1, l, x)
                IN  IF p2.fault # "none" THEN p2
                    ELSE LET p3 == [p2 EXCEPT !.node[x].ckey = p2.node[l].ckey]
                             p4 == IF leaf_at(p3, l)
                                   THEN [free_node(p3, l) EXCEPT !.node[x].left = NULL]
                                   ELSE sift_at(p3, l)
                         IN  sift_at(p4, x)

\* combine up to its call of sift: the new node z, in ret
combine_node_at(pl, x, y, r) ==
  IF pl.fault # "none" THEN pl
  ELSE IF ~NodeLive(pl, x) THEN PoolFault(pl, BadAccess(x))
  ELSE [pl EXCEPT !.node[NewNode(pl.node)] =
                     [alloc |-> TRUE, left |-> x, right |-> y, first |-> NULL,
                      last |-> NULL, ckey |-> 0, rank |-> pl.node[x].rank + 1,
                      size |-> get_next_size(pl.node[x].rank + 1, pl.node[x].size, r),
                      nelems |-> 0],
                  !.ret = NewNode(pl.node)]

combine_at(pl, x, y, r) ==
  IF combine_node_at(pl, x, y, r).fault # "none" THEN combine_node_at(pl, x, y, r)
  ELSE [sift_at(combine_node_at(pl, x, y, r), combine_node_at(pl, x, y, r).ret)
          EXCEPT !.ret = combine_node_at(pl, x, y, r).ret]

\* extract_elem, statement by statement; ret is the element
extract_elem_at(pl, x) ==
  IF pl.fault # "none" THEN pl
  ELSE IF ~NodeLive(pl, x) THEN PoolFault(pl, BadAccess(x))
  ELSE IF pl.node[x].first = NULL THEN PoolFault(pl, "assert")
  ELSE IF ~CellLive(pl, pl.node[x].first) THEN PoolFault(pl, "useafterfree")
  ELSE LET todelete == pl.node[x].first
           nf == pl.cell[todelete].next
       IN  IF nf # NULL /\ ~CellLive(pl, nf) THEN PoolFault(pl, "useafterfree")
           ELSE LET n1 == [pl.node EXCEPT ![x].first = nf]
                    n2 == IF nf # NULL
                          THEN IF pl.cell[nf].next = NULL
                               THEN [n1 EXCEPT ![x].last = nf] ELSE n1
                          ELSE [n1 EXCEPT ![x].last = NULL]
                    c1 == IF nf # NULL THEN [pl.cell EXCEPT ![nf].prev = NULL]
                          ELSE pl.cell
                    p1 == free_cell([pl EXCEPT !.cell = c1, !.node = n2], todelete)
                IN  [p1 EXCEPT !.node[x].nelems = @ - 1,
                               !.ret = pl.cell[todelete].elem]

\* what extract_min_with_ckey does to the root of T and below
extract_at(pl, T) ==
  LET x  == pl.rootof[T]
      p1 == extract_elem_at(pl, x)
  IN  IF p1.fault # "none" THEN p1
      ELSE IF p1.node[x].nelems <= p1.node[x].size \div 2
      THEN IF ~leaf_at(p1, x) THEN [sift_at(p1, x) EXCEPT !.ret = p1.ret]
           ELSE IF p1.node[x].nelems = 0
           THEN [free_node(p1, x) EXCEPT !.rootof[T] = NULL]
           ELSE p1
      ELSE p1

\* The calls below are the public operations as they act on the pool.  Which
\* trees the loop of repeated_combine combines is read off the memory m the
\* call starts in; the nodes are those the root fields of these trees hold.
RECURSIVE carries_at(_, _, _, _, _)
carries_at(pl, sts, i, smaller_rank, r) ==
  IF i > Len(sts) THEN pl
  ELSE IF LoopCase(sts[i].m, sts[i].curr, smaller_rank) = "carry"
  THEN LET curr == sts[i].curr
           nx   == sts[i].m.tree[curr].next
           p1   == combine_at(pl, pl.rootof[curr], pl.rootof[nx], r)
       IN  carries_at([p1 EXCEPT !.rootof[curr] = p1.ret, !.rootof[nx] = NULL],
                      sts, i + 1, smaller_rank, r)
  ELSE carries_at(pl, sts, i + 1, smaller_rank, r)

meld_into_at(pl, m, L, H) ==
  IF merge_into(m, L, H).heap[H].first = NULL THEN pl
  ELSE carries_at(pl, LoopStates(merge_into(m, L, H), H, merge_into(m, L, H).heap[H].first,
                                 m.heap[L].rank, m.heap[H].r),
                  1, m.heap[L].rank, m.heap[H].r)

meld_at(pl, m, P, Q) ==
  IF m.heap[P].rank >= m.heap[Q].rank THEN meld_into_at(pl, m, Q, P)
  ELSE meld_into_at(pl, m, P, Q)

\* maketree: the new tree's root field holds the node makenode returns
maketree_at(pl, T, elem) == [makenode_at(pl, elem) EXCEPT !.rootof[T] = makenode_at(pl, elem).ret]

insert_at(pl, m, P, elem) ==
  IF empty(m, P) THEN maketree_at(pl, NewTree(m.tree), elem)
  ELSE meld_at(maketree_at(pl, NewTree(m.tree), elem),
               makeheap(m, NewShell(m.heap), elem, m.heap[P].epsilon),
               P, NewShell(m.heap))

extract_min_at(pl, m, P) == extract_at(pl, m.tree[m.heap[P].first].sufmin)

\* ------------------------------------------------------------------ state
VARIABLES
  heap,    \* ShellIds -> struct SOFTHEAP, with the allocation status of the shell
  tree,    \* TreeIds  -> struct TREE, with the allocation status of the tree
  fault,   \* "none" while the process runs, else how it ended
  nins,    \* history: per heap, the number of inserts that went into it
  owed,    \* history: per heap, the keys inserted into it minus the keys it returned
  run,     \* history: per heap, the ckey reported by the extraction that
           \* immediately precedes (no insert or meld on the heap since), or -1
  total,   \* history: number of items ever put into heaps
  last,    \* history: the latest call, its arguments, results and pre-state
  sort,    \* history of the sorting scenario: its n (0 outside it), the
           \* elements extracted and the ckeys they travelled under
  pool     \* the nodes and item cells of the trees at their addresses, in
           \* the scenario that follows them (pool.on); the roots in tree
           \* hold the same nodes as values

vars == <<heap, tree, fault, nins, owed, run, total, last, sort, pool>>

Mem == [heap |-> heap, tree |-> tree, fault |-> fault]

\* ---------------------------------------------------- observation helpers
RECURSIVE NodeItems(_)
NodeItems(x) ==
  x.items \o (IF x.left = NULLNODE THEN <<>> ELSE NodeItems(x.left[1]))
          \o (IF x.right = NULLNODE THEN <<>> ELSE NodeItems(x.right[1]))

RECURSIVE NodeSet(_)
NodeSet(x) ==
  {x} \cup (IF x.left = NULLNODE THEN {} ELSE NodeSet(x.left[1]))
      \cup (IF x.right = NULLNODE THEN {} ELSE NodeSet(x.right[1]))

\* the trees met following next from T, at most fuel of them
RECURSIVE RootListFrom(_, _, _)
RootListFrom(tr, T, fuel) ==
  IF T = NULL \/ fuel = 0 THEN <<>>
  ELSE <<T>> \o RootListFrom(tr, tr[T].next, fuel - 1)

RootList(m, h) == RootListFrom(m.tree, m.heap[h].first, Cardinality(TreeIds))

RECURSIVE ItemsOfTrees(_, _)
ItemsOfTrees(tr, ts) ==
  IF ts = <<>> THEN <<>>
  ELSE NodeItems(tr[Head(ts)].root[1]) \o ItemsOfTrees(tr, Tail(ts))

HeapItems(m, h) == ItemsOfTrees(m.tree, RootList(m, h))

BagOf(seq) == [k \in Keys |-> Cardinality({i \in DOMAIN seq : seq[i] = k})]
EmptyBag == [k \in Keys |-> 0]
BagPlus(a, b) == [k \in Keys |-> a[k] + b[k]]
BagAdd(a, k) == [a EXCEPT ![k] = @ + 1]
BagRemove(a, k) == [a EXCEPT ![k] = @ - 1]
RECURSIVE SumUpTo(_, _)
SumUpTo(a, k) == IF k < 0 THEN 0 ELSE a[k] + SumUpTo(a, k - 1)
BagSize(a) == SumUpTo(a, MaxKey)

HeapNodes(m, h) ==
  UNION {NodeSet(m.tree[RootList(m, h)[i]].root[1]) : i \in DOMAIN RootList(m, h)}

SetMin(S) == CHOOSE v \in S : \A w \in S : v <= w

\* number of items travelling under a ckey larger than their own key
RECURSIVE NodeCorrupted(_)
NodeCorrupted(x) ==
  Cardinality({i \in DOMAIN x.items : x.items[i] < x.ckey})
  + (IF x.left = NULLNODE THEN 0 ELSE NodeCorrupted(x.left[1]))
  + (IF x.right = NULLNODE THEN 0 ELSE NodeCorrupted(x.right[1]))

RECURSIVE CorruptedOfTrees(_, _)
CorruptedOfTrees(tr, ts) ==
  IF ts = <<>> THEN 0
  ELSE NodeCorrupted(tr[Head(ts)].root[1]) + CorruptedOfTrees(tr, Tail(ts))

Corrupted(m, h) == CorruptedOfTrees(m.tree, RootList(m, h))

Live(h) == heap[h].status = "live"
NumLive == Cardinality({h \in ShellIds : Live(h)})

\* a dereference of NULL is undefined: the process is killed by the signal, or
\* the build does anything else
FinalFaults(f) == IF f = "nullderef" THEN {"segv", "undefined"} ELSE {f}

LiveShells == {h \in ShellIds : Live(h)}

NoCall == [op |-> "none", h |-> 0, q |-> 0, res |-> 0, e |-> -1, ckey |-> -1,
           eps |-> NoEps, freed |-> [nodes |-> 0, cells |-> 0, trees |-> 0],
           minck |-> -1, rootck |-> -1, roothead |-> -1, prevck |-> -1,
           pre |-> EmptyBag, shells |-> {}]

NoSort == [n |-> 0, cap |-> MaxInserts, out |-> <<>>, cks |-> <<>>]

\* how many items may still be put into heaps
InsertBudget == sort.cap

Init ==
  /\ heap = [s \in ShellIds |-> NoHeap("none")]
  /\ tree = [t \in TreeIds |-> FreeTree]
  /\ fault = "none"
  /\ nins = [s \in ShellIds |-> 0]
  /\ owed = [s \in ShellIds |-> EmptyBag]
  /\ run = [s \in ShellIds |-> -1]
  /\ total = 0
  /\ last = NoCall
  /\ sort = NoSort
  /\ pool = EmptyPool(FALSE)

\* what every call does to the program state
Commit(m) ==
  /\ heap' = m.heap
  /\ tree' = m.tree
  /\ fault' \in FinalFaults(m.fault)

\* what a call that returned in memory m does to the pool
Follow(m, pl) ==
  pool' = IF pool.on /\ m.fault = "none" THEN [pl EXCEPT !.ret = 0] ELSE pool

\* Each call below is split in two: the guard with the call itself, and what
\* the call's outcome m does to the state and to the history.
MakeheapEmptyDone(m, s, epsilon) ==
  /\ Commit(m)
  /\ last' = [NoCall EXCEPT !.op = "makeheap_empty", !.h = s, !.res = s,
                            !.eps = epsilon]
  /\ UNCHANGED pool
  /\ IF m.fault = "none"
     THEN /\ nins' = [nins EXCEPT ![s] = 0]
          /\ owed' = [owed EXCEPT ![s] = EmptyBag]
          /\ run' = [run EXCEPT ![s] = -1]
     ELSE UNCHANGED <<nins, owed, run>>
  /\ UNCHANGED <<total, sort>>

MakeheapEmpty(epsilon) ==
  /\ fault = "none"
  /\ NumLive < Cardinality(HeapIds)
  /\ MakeheapEmptyDone(makeheap_empty(Mem, NewShell(heap), epsilon), NewShell(heap), epsilon)

MakeheapDone(m, s, elem, epsilon) ==
  /\ Commit(m)
  /\ last' = [NoCall EXCEPT !.op = "makeheap", !.h = s, !.res = s, !.e = elem,
                            !.eps = epsilon]
  /\ Follow(m, maketree_at(pool, NewTree(tree), elem))
  /\ IF m.fault = "none"
     THEN /\ nins' = [nins EXCEPT ![s] = 1]
          /\ owed' = [owed EXCEPT ![s] = BagAdd(EmptyBag, elem)]
          /\ run' = [run EXCEPT ![s] = -1]
          /\ total' = total + 1
     ELSE UNCHANGED <<nins, owed, run, total>>
  /\ UNCHANGED sort

Makeheap(elem, epsilon) ==
  /\ fault = "none"
  /\ NumLive < Cardinality(HeapIds)
  /\ total < InsertBudget
  /\ MakeheapDone(makeheap(Mem, NewShell(heap), elem, epsilon), NewShell(heap), elem, epsilon)

InsertDone(m, P, elem) ==
  /\ Commit(m)
  /\ last' = [NoCall EXCEPT !.op = "insert", !.h = P, !.res = P, !.e = elem,
                            !.pre = BagOf(HeapItems(Mem, P)),
                            !.shells = LiveShells]
  /\ Follow(m, insert_at(pool, Mem, P, elem))
  /\ IF m.fault = "none"
     THEN /\ nins' = [nins EXCEPT ![P] = @ + 1]
          /\ owed' = [owed EXCEPT ![P] = BagAdd(@, elem)]
          /\ run' = [run EXCEPT ![P] = -1]
          /\ total' = total + 1
     ELSE UNCHANGED <<nins, owed, run, total>>
  /\ UNCHANGED sort

Insert(P, elem) ==
  /\ fault = "none"
  /\ Live(P)
  /\ total < InsertBudget
  /\ InsertDone(insert(Mem, P, elem), P, elem)

MeldDone(res, P, Q) ==
  /\ Commit(res.m)
  /\ last' = [NoCall EXCEPT !.op = "meld", !.h = P, !.q = Q, !.res = res.result,
                 !.pre = BagPlus(BagOf(HeapItems(Mem, P)), BagOf(HeapItems(Mem, Q))),
                 !.shells = LiveShells,
                 !.eps = IF res.m.fault # "none" THEN NoEps
                         ELSE heap[IF res.result = P THEN Q ELSE P].epsilon,
                 !.freed.trees = Cardinality({t \in TreeIds : tree[t].alloc})
                                 - Cardinality({t \in TreeIds : res.m.tree[t].alloc})]
  /\ Follow(res.m, meld_at(pool, Mem, P, Q))
  /\ IF res.m.fault = "none"
     THEN LET R == res.result
              other == IF R = P THEN Q ELSE P
          IN  /\ nins' = [nins EXCEPT ![R] = nins[P] + nins[Q], ![other] = 0]
              /\ owed' = [owed EXCEPT ![R] = BagPlus(owed[P], owed[Q]), ![other] = EmptyBag]
              /\ run' = [run EXCEPT ![R] = -1, ![other] = -1]
     ELSE UNCHANGED <<nins, owed, run>>
  /\ UNCHANGED <<total, sort>>

Meld(P, Q) ==
  /\ fault = "none"
  /\ Live(P) /\ Live(Q) /\ P # Q
  /\ MeldDone(meld(Mem, P, Q), P, Q)

\* the root of the tree P.first->sufmin
SufminRoot(m, P) == m.tree[m.tree[m.heap[P].first].sufmin].root[1]

\* what the history keeps of the heap as it is when an extraction is called
BeforeExtraction(P, root) ==
  [NoCall EXCEPT !.h = P, !.res = P,
                 !.minck = SetMin({x.ckey : x \in HeapNodes(Mem, P)}),
                 !.rootck = root.ckey,
                 !.roothead = IF root.items = <<>> THEN -1 ELSE Head(root.items),
                 !.prevck = run[P],
                 !.pre = BagOf(HeapItems(Mem, P)),
                 !.shells = LiveShells]

\* the part of an extraction that does not depend on which entry point is
\* used; ckey is the value the call left in *ckey_into
ExtractionDone(m, e, ckey, P, opname) ==
  /\ Commit(m)
  /\ last' = [(IF empty(Mem, P) THEN [NoCall EXCEPT !.h = P, !.res = P]
               ELSE BeforeExtraction(P, SufminRoot(Mem, P)))
                EXCEPT !.op = opname, !.e = e, !.ckey = ckey]
  /\ Follow(m, extract_min_at(pool, Mem, P))
  /\ IF m.fault = "none"
     THEN /\ owed' = [owed EXCEPT ![P] = BagRemove(@, e)]
          /\ run' = [run EXCEPT ![P] = ckey]
          /\ sort' = IF sort.n = 0 THEN sort
                     ELSE [sort EXCEPT !.out = Append(@, e), !.cks = Append(@, ckey)]
     ELSE UNCHANGED <<owed, run, sort>>
  /\ UNCHANGED <<nins, total>>

ExtractMinWithCkeyDone(res, P) ==
  ExtractionDone(res.m, res.e, res.ckey, P, "extract_min_with_ckey")

ExtractMinWithCkey(P) ==
  /\ fault = "none"
  /\ Live(P)
  /\ ExtractMinWithCkeyDone(extract_min_with_ckey(Mem, P), P)

\* extract_min passes the address of its local filler as ckey_into
ExtractMinDone(res, filler, P) ==
  ExtractionDone(res.m, res.e, filler.ckey, P, "extract_min")

ExtractMin(P) ==
  /\ fault = "none"
  /\ Live(P)
  /\ ExtractMinDone(extract_min(Mem, P), extract_min_with_ckey(Mem, P), P)

DestroyDone(res, P) ==
  /\ Commit(res.m)
  /\ last' = [NoCall EXCEPT !.op = "destroy_heap", !.h = P, !.prevck = run[P],
                            !.pre = BagOf(HeapItems(Mem, P)),
                            !.shells = LiveShells, !.freed = res.freed]
  /\ UNCHANGED pool
  /\ nins' = [nins EXCEPT ![P] = 0]
  /\ owed' = [owed EXCEPT ![P] = EmptyBag]
  /\ run' = [run EXCEPT ![P] = -1]
  /\ UNCHANGED <<total, sort>>

Destroy(P) ==
  /\ fault = "none"
  /\ Live(P)
  /\ DestroyDone(destroy_heap(Mem, P), P)

Next ==
  \/ \E epsilon \in Epsilons : MakeheapEmpty(epsilon)
  \/ \E elem \in Keys, epsilon \in Epsilons : Makeheap(elem, epsilon)
  \/ \E P \in ShellIds, elem \in Keys : Insert(P, elem)
  \/ \E P \in ShellIds, Q \in ShellIds : Meld(P, Q)
  \/ \E P \in ShellIds : ExtractMinWithCkey(P)
  \/ \E P \in ShellIds : ExtractMin(P)
  \/ \E P \in ShellIds : Destroy(P)

\* any client: any sequence of calls of the public operations
Spec == Init /\ [][Next]_vars

\* ------------------------------------------------- node-level scenario
\* Any client of heaps of the two valid epsilons, with the nodes and cells
\* of the trees followed at their addresses.
NodeInit ==
  /\ heap = [s \in ShellIds |-> NoHeap("none")]
  /\ tree = [t \in TreeIds |-> FreeTree]
  /\ fault = "none"
  /\ nins = [s \in ShellIds |-> 0]
  /\ owed = [s \in ShellIds |-> EmptyBag]
  /\ run = [s \in ShellIds |-> -1]
  /\ total = 0
  /\ last = NoCall
  /\ sort = NoSort
  /\ pool = EmptyPool(TRUE)

NodeNext ==
  \/ \E epsilon \in {Eps(1, 16), Eps(1, 64)} : MakeheapEmpty(epsilon)
  \/ \E P \in ShellIds, elem \in Keys : Insert(P, elem)
  \/ \E P \in ShellIds, Q \in ShellIds : Meld(P, Q)
  \/ \E P \in ShellIds : ExtractMinWithCkey(P)

NodeSpec == NodeInit /\ [][NodeNext]_vars

\* ------------------------------------------------------ sorting scenario
\* softheap_sort of sorts.c on an array of n >= 2 keys: a heap made with
\* epsilon = 1/n, n inserts, then n extractions.
SortHeap == 1

SortInit ==
  /\ \E n \in 2..MaxN :
        /\ sort = [n |-> n, cap |-> n, out |-> <<>>, cks |-> <<>>]
        /\ heap = [s \in ShellIds |->
                     IF s = SortHeap THEN EmptyShell(Eps(1, n)) ELSE NoHeap("none")]
  /\ tree = [t \in TreeIds |-> FreeTree]
  /\ fault = "none"
  /\ nins = [s \in ShellIds |-> 0]
  /\ owed = [s \in ShellIds |-> EmptyBag]
  /\ run = [s \in ShellIds |-> -1]
  /\ total = 0
  /\ last = NoCall
  /\ pool = EmptyPool(FALSE)

SortInsert(elem) == Insert(SortHeap, elem)

SortExtract ==
  /\ total = sort.n
  /\ Len(sort.out) < sort.n
  /\ \/ ExtractMin(SortHeap)
     \/ ExtractMinWithCkey(SortHeap)

SortDestroy ==
  /\ Len(sort.out) = sort.n
  /\ Destroy(SortHeap)

SortNext ==
  \/ \E elem \in Keys : SortInsert(elem)
  \/ SortExtract
  \/ SortDestroy

SortSpec == SortInit /\ [][SortNext]_vars

\* ------------------------------------------------------ melding scenario
\* Two heaps of one epsilon, each filled by up to MaxMeldHeap inserts, melded
\* in either order, with extractions at any point.
MeldEpsilons == {Eps(1, 16), Eps(1, 64)}

MeldInit ==
  /\ \E epsilon \in MeldEpsilons :
        heap = [s \in ShellIds |->
                  IF s \in HeapIds THEN EmptyShell(epsilon) ELSE NoHeap("none")]
  /\ tree = [t \in TreeIds |-> FreeTree]
  /\ fault = "none"
  /\ nins = [s \in ShellIds |-> 0]
  /\ owed = [s \in ShellIds |-> EmptyBag]
  /\ run = [s \in ShellIds |-> -1]
  /\ total = 0
  /\ last = NoCall
  /\ sort = [NoSort EXCEPT !.cap = 2 * MaxMeldHeap]
  /\ pool = EmptyPool(FALSE)

MeldInsert(P, elem) ==
  /\ nins[P] < MaxMeldHeap
  /\ Insert(P, elem)

MeldNext ==
  \/ \E P \in HeapIds, elem \in Keys : MeldInsert(P, elem)
  \/ \E P \in HeapIds, Q \in HeapIds : Meld(P, Q)
  \/ \E P \in HeapIds : ExtractMinWithCkey(P)

MeldSpec == MeldInit /\ [][MeldNext]_vars

\* -------------------------------------- scenario of the error parameters
\* Clients that make heaps with error parameters in and out of (0,1), close
\* to one another and far apart, put a few items into them and meld them.
EpsilonsWide ==
  Epsilons \cup {Eps(100, 6401), Eps(3, 2), Eps(0, 1), Eps(-1, 2)}

EpsInit ==
  /\ heap = [s \in ShellIds |-> NoHeap("none")]
  /\ tree = [t \in TreeIds |-> FreeTree]
  /\ fault = "none"
  /\ nins = [s \in ShellIds |-> 0]
  /\ owed = [s \in ShellIds |-> EmptyBag]
  /\ run = [s \in ShellIds |-> -1]
  /\ total = 0
  /\ last = NoCall
  /\ sort = [NoSort EXCEPT !.cap = MaxEpsItems]
  /\ pool = EmptyPool(FALSE)

EpsNext ==
  \/ \E epsilon \in EpsilonsWide : MakeheapEmpty(epsilon)
  \/ \E elem \in Keys, epsilon \in EpsilonsWide : Makeheap(elem, epsilon)
  \/ \E P \in ShellIds, elem \in Keys : Insert(P, elem)
  \/ \E P \in ShellIds, Q \in ShellIds : Meld(P, Q)
  \/ \E P \in ShellIds : Destroy(P)

EpsSpec == EpsInit /\ [][EpsNext]_vars

\* ------------------------------------------------------------- properties
Running == fault = "none"
Extracted == last.op \in {"extract_min", "extract_min_with_ckey"}
Sorted(seq) == \A i \in DOMAIN seq : \A j \in DOMAIN seq : i < j => seq[i] <= seq[j]

\* C1: in every state reached by makeheap_empty/makeheap, insert, meld and
\* extract_min calls, each heap holds at most floor(epsilon * n) items whose
\* node's ckey is greater than their own key, n being the number of inserts
\* that went into the heap.
C1_CorruptionBound ==
  Running =>
    \A h \in ShellIds :
      Live(h) =>
        Corrupted(Mem, h) <= (heap[h].epsilon.num * nins[h]) \div heap[h].epsilon.den

\* C2: after every prefix of operations the keys stored in the item lists of
\* a heap's nodes are, as a multiset, the keys inserted into it minus the keys
\* it returned.
C2_MultisetPreserved ==
  Running => \A h \in ShellIds : Live(h) => BagOf(HeapItems(Mem, h)) = owed[h]

\* C2 witness: a heap that went through a combine and a sift that moved a
\* list under a larger ckey, and then through an extraction, still holds items.
C2_Witness ==
  /\ Running /\ Extracted
  /\ Live(last.h)
  /\ Corrupted(Mem, last.h) > 0
  /\ nins[last.h] >= 3

\* C3: extract_min_with_ckey returns the head item of the root of the tree
\* P.first->sufmin and reports that root's ckey, which is at most the ckey of
\* every node of the heap's forest at the moment of the call.
C3_ExtractsMinimumCkey ==
  (Running /\ last.op = "extract_min_with_ckey") =>
    /\ last.e = last.roothead
    /\ last.ckey = last.rootck
    /\ last.ckey <= last.minck

\* C3 witness: an extraction from a heap of several trees whose minimum root
\* is not the first tree of the root list.
C3_Witness ==
  /\ Running /\ last.op = "extract_min_with_ckey"
  /\ Live(last.h) /\ ~empty(Mem, last.h)
  /\ tree[heap[last.h].first].next # NULL
  /\ tree[heap[last.h].first].sufmin # heap[last.h].first
  /\ last.ckey < tree[heap[last.h].first].root[1].ckey

\* C4: for every item stored in a node, the node's ckey is at least the
\* item's key, and every extraction reports a ckey at least the element it
\* returns.
C4_CkeyUpperBound ==
  Running =>
    /\ \A h \in ShellIds :
         Live(h) =>
           \A x \in HeapNodes(Mem, h) : \A i \in DOMAIN x.items : x.items[i] <= x.ckey
    /\ last.op = "extract_min_with_ckey" => last.e <= last.ckey

\* C4 witness: an extraction that returned an element under a larger ckey
\* from a heap that still holds an item under a larger ckey.
C4_Witness ==
  /\ Running /\ last.op = "extract_min_with_ckey"
  /\ last.e < last.ckey
  /\ Live(last.h) /\ Corrupted(Mem, last.h) > 0

\* C5: of two extractions from one heap with no insert or meld on it in
\* between, the later reports a ckey at least that of the earlier.
C5_CkeysNondecreasing ==
  (Running /\ Extracted /\ last.prevck # -1) => last.prevck <= last.ckey

\* C5 witness: two consecutive extractions, the second under a larger ckey.
C5_Witness ==
  /\ Running /\ Extracted
  /\ last.prevck # -1
  /\ last.prevck < last.ckey

\* C6: with epsilon = 1/n, n >= 2, n inserts followed by n extract_min calls
\* return the keys in nondecreasing order.
C6_SortsExactly ==
  (sort.n > 0 /\ Running) => Sorted(sort.out)

\* C7: with epsilon = 1/n and n keys inserted, every extraction reports a
\* ckey equal to the element it returns.
C7_NoCorruptionAtOneOverN ==
  (sort.n > 0 /\ Running) =>
    \A i \in DOMAIN sort.out : sort.cks[i] = sort.out[i]

\* C8: meld of two heaps whose epsilons agree within the tolerance, empty or
\* not, completes without error and the heap it returns holds the union of
\* the items of the two.
C8_MeldCompletes ==
  (last.op = "meld" /\ fault # "error") =>
    /\ Running
    /\ Live(last.res)
    /\ BagOf(HeapItems(Mem, last.res)) = last.pre

\* C9: empty(P) is true exactly when P holds no item (inserted minus
\* extracted is empty), and no tree of a root list is without items.
C9_EmptyIffNoItems ==
  Running =>
    \A h \in ShellIds :
      Live(h) =>
        /\ empty(Mem, h) <=> BagSize(owed[h]) = 0
        /\ \A i \in DOMAIN RootList(Mem, h) :
             NodeItems(tree[RootList(Mem, h)[i]].root[1]) # <<>>

\* C9 witness: a heap that held several items and was drained by extractions.
C9_Witness ==
  /\ Running /\ Extracted
  /\ Live(last.h)
  /\ nins[last.h] >= 2
  /\ empty(Mem, last.h)

\* C10: insert(P, elem) never fails, leaves the shell P allocated and frees
\* only the singleton's shell, and afterwards P holds elem in addition to
\* every item it held before.
C10_InsertInPlace ==
  last.op = "insert" =>
    /\ Running
    /\ Live(last.h)
    /\ LiveShells = last.shells
    /\ BagOf(HeapItems(Mem, last.h)) = BagAdd(last.pre, last.e)

\* C10 witness: an insert into a heap that already held items, through meld.
C10_Witness ==
  /\ Running /\ last.op = "insert"
  /\ BagSize(last.pre) >= 2
  /\ Live(last.h)

\* a < b, a <= b on fractions of positive denominator
FracLess(a, b) == a.num * b.den < b.num * a.den
FracLeq(a, b) == a.num * b.den <= b.num * a.den

\* 1 - lo/hi > 1/1000 for fractions 0 < lo <= hi
GapOver(lo, hi) == 1000 * (hi.num * lo.den - lo.num * hi.den) > hi.num * lo.den
TooFarApart(a, b) == IF FracLeq(a, b) THEN GapOver(a, b) ELSE GapOver(b, a)

\* C11: meld(P, Q) fails exactly when the epsilons of P and Q differ by more
\* than the relative tolerance 1 - min/max > 0.001, whichever of the two is
\* the larger, and a failing meld leaves every heap shell and every tree as
\* it was.
C11_MeldEpsilonCheck ==
  [][last'.op = "meld" =>
       /\ (fault' = "error")
            <=> TooFarApart(heap[last'.h].epsilon, heap[last'.q].epsilon)
       /\ fault' = "error" => (heap' = heap /\ tree' = tree)]_vars

\* C11 witness: a meld of two heaps that hold items refused although the
\* first argument has the smaller epsilon.
C11_Witness ==
  /\ last.op = "meld" /\ fault = "error"
  /\ Live(last.h) /\ Live(last.q)
  /\ ~empty(Mem, last.h) /\ ~empty(Mem, last.q)
  /\ FracLess(heap[last.h].epsilon, heap[last.q].epsilon)

\* C12: extract_min and extract_min_with_ckey on an empty heap end in error
\* with no item returned and nothing stored in *ckey_into, and leave every
\* heap shell and tree as it was; the empty heap has rank -1.
C12_ExtractFromEmptyFails ==
  [][(last'.op \in {"extract_min", "extract_min_with_ckey"}
      /\ heap[last'.h].first = NULL) =>
       /\ fault' = "error"
       /\ last'.e = -1 /\ last'.ckey = -1
       /\ heap' = heap /\ tree' = tree
       /\ heap[last'.h].rank = -1]_vars

\* C12 witness: an extraction refused on a heap that held items and was
\* drained by earlier extractions.
C12_Witness ==
  /\ Extracted /\ fault = "error"
  /\ Live(last.h) /\ empty(Mem, last.h)
  /\ nins[last.h] >= 2

\* C13: makeheap_empty and makeheap end in error for every epsilon <= 0 and
\* every epsilon >= 1, leaving every heap shell and tree as it was; for
\* 0 < epsilon < 1 they succeed and return a new heap of that epsilon,
\* empty with rank -1 for makeheap_empty and holding exactly elem for
\* makeheap, the heaps that existed being untouched.
C13_EpsilonRange ==
  [][last'.op \in {"makeheap_empty", "makeheap"} =>
       IF last'.eps.num > 0 /\ last'.eps.num < last'.eps.den
       THEN /\ fault' = "none"
            /\ heap[last'.res].status # "live"
            /\ heap'[last'.res].status = "live"
            /\ heap'[last'.res].epsilon = last'.eps
            /\ \A h \in ShellIds \ {last'.res} : heap'[h] = heap[h]
            /\ \A t \in TreeIds : tree[t].alloc => tree'[t] = tree[t]
            /\ last'.op = "makeheap_empty" =>
                 /\ heap'[last'.res].first = NULL
                 /\ heap'[last'.res].rank = -1
                 /\ tree' = tree
            /\ last'.op = "makeheap" =>
                 HeapItems([heap |-> heap', tree |-> tree'], last'.res) = <<last'.e>>
       ELSE /\ fault' = "error"
            /\ heap' = heap /\ tree' = tree]_vars

\* C13 witness: a makeheap refused for an epsilon of 1 or more while another
\* heap holds items.
C13_Witness ==
  /\ last.op = "makeheap" /\ fault = "error"
  /\ last.eps.num >= last.eps.den
  /\ \E h \in ShellIds : Live(h) /\ ~empty(Mem, h)

\* what a meld leaves: whether it returned, and the keys of the heap returned
MeldContents(res) ==
  IF res.m.fault # "none" THEN [returned |-> FALSE, keys |-> EmptyBag]
  ELSE [returned |-> TRUE, keys |-> BagOf(HeapItems(res.m, res.result))]

MeldPairs ==
  {pq \in ShellIds \X ShellIds :
     /\ pq[1] # pq[2] /\ Live(pq[1]) /\ Live(pq[2])
     /\ ~TooFarApart(heap[pq[1]].epsilon, heap[pq[2]].epsilon)}

\* C14: for any two heaps P and Q of agreeing epsilons, meld(P, Q) and
\* meld(Q, P) each return a heap, and the two hold the same multiset of keys.
C14_MeldCommutes ==
  Running =>
    \A pq \in MeldPairs :
      /\ MeldContents(meld(Mem, pq[1], pq[2])).returned
      /\ MeldContents(meld(Mem, pq[1], pq[2])) = MeldContents(meld(Mem, pq[2], pq[1]))

\* C14, for the melds that return: whenever one of meld(P, Q) and meld(Q, P)
\* returns a heap so does the other, and with the same multiset of keys.
C14_MeldCommutesWhenReturning ==
  Running =>
    \A pq \in MeldPairs :
      MeldContents(meld(Mem, pq[1], pq[2])) = MeldContents(meld(Mem, pq[2], pq[1]))

\* two heaps of different shapes that both hold items, ready to be melded
C14_UnequalPair ==
  /\ Running
  /\ \E pq \in MeldPairs :
       /\ heap[pq[1]].rank > heap[pq[2]].rank
       /\ heap[pq[2]].rank >= 0
       /\ Corrupted(Mem, pq[1]) > 0

Allocated(tr) == {t \in TreeIds : tr[t].alloc}
TreesOf(m, h) == {RootList(m, h)[i] : i \in DOMAIN RootList(m, h)}

\* C15: destroy_heap(P) frees the shell of P and every tree, node and item
\* cell of its forest, each once: afterwards the trees still allocated are
\* exactly those of the root lists of the other heaps, untouched, as many
\* tree shells were freed as ceased to be allocated, and as many item cells
\* as P held items.
C15_DestroyFreesAll ==
  [][last'.op = "destroy_heap" =>
       /\ fault' = "none"
       /\ heap'[last'.h].status = "freed"
       /\ \A h \in ShellIds \ {last'.h} : heap'[h] = heap[h]
       /\ Allocated(tree') =
            UNION {TreesOf(Mem, h) : h \in LiveShells \ {last'.h}}
       /\ \A t \in Allocated(tree') : tree'[t] = tree[t]
       /\ last'.freed.trees = Cardinality(Allocated(tree) \ Allocated(tree'))
       /\ last'.freed.cells = BagSize(owed[last'.h])
       /\ last'.freed.nodes >= last'.freed.trees]_vars

\* C15 witness: destroy_heap right after an extraction, on a heap that has
\* nodes below a root, while another heap lives on.
C15_Witness ==
  /\ Running /\ last.op = "destroy_heap"
  /\ last.prevck # -1
  /\ last.freed.nodes > last.freed.trees
  /\ \E h \in ShellIds : Live(h)

\* C16: a heap whose items have all been extracted is as makeheap_empty
\* made it for its epsilon (first NULL, rank -1, epsilon and r as they were),
\* no tree is left allocated for it, and destroy_heap has nothing but its
\* shell to free.
C16_DrainedIsFresh ==
  Running =>
    \A h \in ShellIds :
      (Live(h) /\ BagSize(owed[h]) = 0) =>
        /\ heap[h] = EmptyShell(heap[h].epsilon)
        /\ Allocated(tree) = UNION {TreesOf(Mem, g) : g \in LiveShells \ {h}}
        /\ destroy_heap(Mem, h).freed = [nodes |-> 0, cells |-> 0, trees |-> 0]

\* C16 witness: a heap that held three items or more, drained by extractions.
C16_Witness ==
  /\ Running /\ Extracted
  /\ Live(last.h)
  /\ nins[last.h] >= 3
  /\ BagSize(owed[last.h]) = 0

\* the least k >= from with 2^k >= 1/eps, for 0 < eps < 1
RECURSIVE CeilLog2Inverse(_, _)
CeilLog2Inverse(eps, from) ==
  IF Pow2(from) * eps.num >= eps.den THEN from ELSE CeilLog2Inverse(eps, from + 1)

\* C17: the parameter r of every heap is ceil(log2(1/epsilon)) + 5, which is
\* at least 5.
C17_RFormula ==
  Running =>
    \A h \in ShellIds :
      Live(h) =>
        /\ heap[h].r = CeilLog2Inverse(heap[h].epsilon, 0) + 5
        /\ heap[h].r >= 5

\* C18: when meld(P, Q) returns, it returns the one of P and Q of higher
\* rank, P on a tie; the other shell is freed; and every tree of the two
\* root lists is in the root list of the heap returned or is freed, the
\* heap returned holding the items of both.
C18_MeldConsumesBoth ==
  [][(last'.op = "meld" /\ fault' = "none") =>
       /\ last'.res = IF heap[last'.h].rank >= heap[last'.q].rank
                      THEN last'.h ELSE last'.q
       /\ heap'[last'.res].status = "live"
       /\ \A h \in {last'.h, last'.q} \ {last'.res} : heap'[h].status = "freed"
       /\ \A t \in TreesOf(Mem, last'.h) \cup TreesOf(Mem, last'.q) :
            t \in TreesOf([heap |-> heap', tree |-> tree'], last'.res)
              \/ ~tree'[t].alloc
       /\ TreesOf([heap |-> heap', tree |-> tree'], last'.res)
            \subseteq TreesOf(Mem, last'.h) \cup TreesOf(Mem, last'.q)
       /\ BagOf(HeapItems([heap |-> heap', tree |-> tree'], last'.res)) = last'.pre]_vars

\* C18 witness: a meld that returned its second argument and freed two trees
\* whose roots went into combines.
C18_Witness ==
  /\ Running /\ last.op = "meld"
  /\ last.res = last.q
  /\ last.freed.trees >= 2
  /\ heap[last.h].status = "freed"

\* ckey(x) <= ckey(child) for each child x has
OrderedAt(x) ==
  /\ x.left # NULLNODE => x.ckey <= x.left[1].ckey
  /\ x.right # NULLNODE => x.ckey <= x.right[1].ckey

\* C19: between the calls, every node of every tree of every heap has a
\* ckey no larger than the ckey of each of its children.
C19_HeapOrder ==
  Running =>
    \A h \in ShellIds :
      Live(h) => \A x \in HeapNodes(Mem, h) : OrderedAt(x)

\* C19 witness: after a meld, a node with two children, one of them of
\* larger ckey than the node.
C19_Witness ==
  /\ Running /\ last.op = "meld" /\ Live(last.res)
  /\ \E x \in HeapNodes(Mem, last.res) :
       /\ x.left # NULLNODE /\ x.right # NULLNODE
       /\ x.ckey < x.right[1].ckey

\* the ranks of the trees of a root list, first to last
RanksOf(m, h) == [i \in DOMAIN RootList(m, h) |-> m.tree[RootList(m, h)[i]].rank]
StrictlyIncreasing(seq) ==
  \A i \in DOMAIN seq : \A j \in DOMAIN seq : i < j => seq[i] < seq[j]

\* C20: after every completed insert, meld and extraction the ranks of the
\* trees along each heap's root list are strictly increasing.
C20_RanksIncrease ==
  Running => \A h \in ShellIds : Live(h) => StrictlyIncreasing(RanksOf(Mem, h))

\* C20 witness: the meld of two heaps of three items each, which meets three
\* trees of rank 1 in a row and leaves a tree of rank 1 before one of rank 2.
C20_Witness ==
  /\ Running /\ last.op = "meld" /\ Live(last.res)
  /\ BagSize(last.pre) = 6
  /\ RanksOf(Mem, last.res) = <<1, 2>>

\* C21: in every heap at rest, the sufmin of each tree of the root list is an
\* allocated tree of the root list at or after that tree, and the ckey of its
\* root is the least root ckey from that tree to the end of the list
RootCkey(T) == tree[T].root[1].ckey

C21_SufminCorrect ==
  Running =>
    \A h \in LiveShells :
      LET rl == RootList(Mem, h)
      IN  \A i \in DOMAIN rl :
            /\ tree[rl[i]].sufmin \in {rl[j] : j \in i..Len(rl)}
            /\ tree[tree[rl[i]].sufmin].alloc
            /\ RootCkey(tree[rl[i]].sufmin) = SetMin({RootCkey(rl[j]) : j \in i..Len(rl)})

\* a meld has left a heap whose first tree has a later tree of strictly
\* smaller root ckey as its sufmin
C21_Witness ==
  /\ Running /\ last.op = "meld"
  /\ LET rl == RootList(Mem, last.res)
     IN  /\ Len(rl) >= 2
         /\ tree[rl[1]].sufmin # rl[1]
         /\ RootCkey(tree[rl[1]].sufmin) < RootCkey(rl[1])

\* C22: the rank field of a heap is the rank of the last tree of its root
\* list, and it is -1 exactly when the root list is empty
C22_HeapRank ==
  Running =>
    \A h \in LiveShells :
      LET rl == RootList(Mem, h)
      IN  /\ (rl = <<>>) <=> (heap[h].rank = -1)
          /\ rl # <<>> => heap[h].rank = tree[rl[Len(rl)]].rank

\* an extraction took the last item of the last tree of a list of two trees:
\* the heap rank fell back to the rank of the tree before it
C22_Witness ==
  /\ Running /\ Extracted
  /\ BagSize(last.pre) = 2
  /\ RanksOf(Mem, last.res) = <<0>>
  /\ heap[last.res].rank = 0
\* C23 reads the size of a node off its rank: 1 at rank 0 (makenode) and up
\* to rank r, and above r a rounded-up multiple of the size one rank below
CeilDiv(a, b) == (a + b - 1) \div b

RECURSIVE SizeAsSpecified(_, _)
SizeAsSpecified(k, r) ==
  IF k = 0 \/ k <= r THEN 1 ELSE CeilDiv(3 * SizeAsSpecified(k - 1, r) + 1, 2)

RECURSIVE SizeThreeHalves(_, _)
SizeThreeHalves(k, r) ==
  IF k = 0 \/ k <= r THEN 1 ELSE CeilDiv(3 * SizeThreeHalves(k - 1, r), 2)

Roots(m, h) == {m.tree[RootList(m, h)[i]].root[1] : i \in DOMAIN RootList(m, h)}
Inner(m, h) == HeapNodes(m, h) \ Roots(m, h)

C25_NoEmptyNode ==
  /\ fault # "assert"
  /\ Running =>
       \A h \in LiveShells : \A x \in HeapNodes(Mem, h) :
         x.items # <<>> /\ x.nelems = Len(x.items)

\* an insert or a meld has left a leaf of rank 1 or more: sift emptied the
\* children it was combined from and freed them
C25_Witness ==
  /\ Running /\ last.op \in {"insert", "meld"}
  /\ \E x \in HeapNodes(Mem, last.res) : leaf(x) /\ x.rank >= 1 /\ x.nelems >= 2
\* ------------------------------------------------ the calls a state admits
\* The claims below are about what happens inside a call.  They are checked,
\* in every reachable state, on every call of merge_into, repeated_combine
\* and sift that a meld, an insert or an extraction made in that state runs.

\* merge_into(L, H) as meld calls it, for every meld of two live heaps of
\* agreeing epsilons and every insert into a heap that holds items
MergeCalls ==
  {[m |-> Mem,
    L |-> IF heap[pq[1]].rank >= heap[pq[2]].rank THEN pq[2] ELSE pq[1],
    H |-> IF heap[pq[1]].rank >= heap[pq[2]].rank THEN pq[1] ELSE pq[2]] : pq \in MeldPairs}
  \cup
  {[m |-> makeheap(Mem, NewShell(heap), he[2], heap[he[1]].epsilon),
    L |-> NewShell(heap), H |-> he[1]] :
     he \in {x \in LiveShells \X Keys : ~empty(Mem, x[1])}}

\* repeated_combine(H, L->rank, H->r) as meld calls it after merge_into
LoopCalls ==
  {[m |-> merge_into(c.m, c.L, c.H), Q |-> c.H,
    smaller_rank |-> c.m.heap[c.L].rank, r |-> c.m.heap[c.H].r] :
     c \in {d \in MergeCalls : ~empty(d.m, d.H)}}

LoopStatesOf(c) == LoopStates(c.m, c.Q, c.m.heap[c.Q].first, c.smaller_rank, c.r)

\* the new nodes combine hands to sift
CombineSifts ==
  UNION {{combine_node(st.m.tree[st.curr].root[1],
                       st.m.tree[st.m.tree[st.curr].next].root[1], c.r) :
            st \in {LoopStatesOf(c)[i] : i \in {j \in DOMAIN LoopStatesOf(c) :
                      LoopCase(LoopStatesOf(c)[j].m, LoopStatesOf(c)[j].curr,
                               c.smaller_rank) = "carry"}}} : c \in LoopCalls}

\* the roots extract_min_with_ckey hands to sift
ExtractSifts ==
  {x \in {extract_elem(SufminRoot(Mem, h)) : h \in {g \in LiveShells : ~empty(Mem, g)}} :
     x.nelems <= x.size \div 2 /\ ~leaf(x)}

\* the node after the first pass of the loop of sift(x): sift run until x
\* holds one item more
SiftStep(x) == [sift([x EXCEPT !.size = x.nelems + 1]) EXCEPT !.size = x.size]
SiftLoops(x) == x.nelems < x.size /\ ~leaf(x)

\* x at the head of each pass of the loop of sift(x)
RECURSIVE SiftTrace(_)
SiftTrace(x) ==
  IF SiftLoops(x) /\ SiftStep(x) # x THEN <<x>> \o SiftTrace(SiftStep(x)) ELSE <<x>>

\* the child the next pass of the loop pulls from
SiftChild(x) ==
  IF x.left = NULLNODE \/ (x.right # NULLNODE /\ x.left[1].ckey > x.right[1].ckey)
  THEN x.right[1] ELSE x.left[1]

\* the nodes sift is called on while sift(x) runs, x among them
RECURSIVE SiftCalls(_)
SiftCalls(x) ==
  {x} \cup UNION {IF leaf(SiftChild(SiftTrace(x)[i])) THEN {}
                  ELSE SiftCalls(moveList_src(SiftChild(SiftTrace(x)[i]))) :
                    i \in {j \in DOMAIN SiftTrace(x) : SiftLoops(SiftTrace(x)[j])}}
\* from the from-th pass on, no pass of the loop of sift(x) lowers x.ckey
CkeysRise(x, from) ==
  \A i \in from..(Len(SiftTrace(x)) - 1) : SiftTrace(x)[i + 1].ckey >= SiftTrace(x)[i].ckey

\* C26: every assignment x->ckey = x->left->ckey of every sift call gives x a
\* ckey no smaller than the one it had; the node combine has just allocated
\* has none before its first pass
C26_CkeyNeverDecreases ==
  Running =>
    /\ \A z \in CombineSifts :
         CkeysRise(z, 2) /\ \A y \in SiftCalls(z) \ {z} : CkeysRise(y, 1)
    /\ \A x \in ExtractSifts : \A y \in SiftCalls(x) : CkeysRise(y, 1)

\* an extraction from a heap of one tree has raised the ckey of the root it
\* took the item from
C26_Witness ==
  /\ Running /\ Extracted
  /\ Len(RootList(Mem, last.res)) = 1
  /\ last.rootck >= 0
  /\ \E x \in Roots(Mem, last.res) : x.ckey > last.rootck

\* what sift(y) owes on return
SiftPost(y) ==
  /\ sift(y).nelems >= sift(y).size \/ leaf(sift(y))
  /\ ~leaf(y) => sift(y).nelems >= 1

\* C27: every sift call returns its node x with nelems >= size or as a leaf,
\* and with at least one item if x had a child when the call began
C27_SiftPostcondition ==
  Running =>
    \A x \in CombineSifts \cup ExtractSifts : \A y \in SiftCalls(x) : SiftPost(y)
\* an extraction has sifted the root of the only tree (its ckey rose) and
\* sift gave it back as a leaf short of its size
C27_Witness ==
  /\ Running /\ Extracted
  /\ Len(RootList(Mem, last.res)) = 1
  /\ last.rootck >= 0
  /\ \E x \in Roots(Mem, last.res) :
       leaf(x) /\ x.nelems < x.size /\ x.ckey > last.rootck
\* following next, resp. prev, from T ends at NULL within fuel steps
RECURSIVE NextWalkEnds(_, _, _)
NextWalkEnds(tr, T, fuel) ==
  T = NULL \/ (fuel > 0 /\ NextWalkEnds(tr, tr[T].next, fuel - 1))

RECURSIVE PrevWalkEnds(_, _, _)
PrevWalkEnds(tr, T, fuel) ==
  T = NULL \/ (fuel > 0 /\ PrevWalkEnds(tr, tr[T].prev, fuel - 1))

\* the walks over the root list of h end: next leads from first to NULL
\* through as many trees as are allocated at most, and so does prev from
\* every tree of the list
WalksEnd(m, h) ==
  /\ NextWalkEnds(m.tree, m.heap[h].first, Cardinality(Allocated(m.tree)))
  /\ \A T \in TreesOf(m, h) : PrevWalkEnds(m.tree, T, Cardinality(Allocated(m.tree)))

\* every pass of the loop of sift(y) adds to the items of y, so that
\* size - nelems falls until the loop is left
SiftProgresses(y) ==
  \A i \in DOMAIN SiftTrace(y) :
    SiftLoops(SiftTrace(y)[i]) => SiftStep(SiftTrace(y)[i]).nelems > SiftTrace(y)[i].nelems

\* the number of trees from curr to the end of the root list falls with
\* every iteration of the loop of repeated_combine
AheadOf(st) == Len(RootListFrom(st.m.tree, st.curr, Cardinality(TreeIds)))
LoopProgresses(sts) == \A i \in 1..(Len(sts) - 1) : AheadOf(sts[i + 1]) < AheadOf(sts[i])

\* C28: every call of insert, meld and extract_min that does not end in a
\* fault finishes, each loop having a measure that falls: each pass of sift
\* (in every nested call) adds items to its node; merge_into leaves a root
\* list whose walks end; each iteration of repeated_combine shortens the list
\* ahead of curr; and the prev walk of update_suffix_min ends at NULL from
\* the tree repeated_combine stops at and from every tree of a heap at rest
C28_CallsTerminate ==
  Running =>
    /\ \A h \in LiveShells : WalksEnd(Mem, h)
    /\ \A x \in CombineSifts \cup ExtractSifts : \A y \in SiftCalls(x) : SiftProgresses(y)
    /\ \A c \in LoopCalls :
         /\ c.m.fault = "none" /\ WalksEnd(c.m, c.Q)
         /\ LoopProgresses(LoopStatesOf(c))
         /\ PrevWalkEnds(LoopStatesOf(c)[Len(LoopStatesOf(c))].m.tree,
                         LoopStatesOf(c)[Len(LoopStatesOf(c))].curr,
                         Cardinality(TreeIds))

\* a meld has returned after two carries and a sift of several passes
C28_Witness ==
  /\ Running /\ last.op = "meld" /\ Live(last.res)
  /\ last.freed.trees >= 2
  /\ \E x \in Roots(Mem, last.res) : x.rank = 2 /\ x.size = 3 /\ x.nelems >= 3
\* the root list ts has ranks that never fall from one tree to the next
RanksNondecreasing(tr, ts) == \A i \in 1..(Len(ts) - 1) : tr[ts[i]].rank <= tr[ts[i + 1]].rank

\* the first tree of the list ts with rank k or more, NULL if there is none
FirstOfRank(tr, ts, k) ==
  IF \E i \in DOMAIN ts : tr[ts[i]].rank >= k
  THEN ts[CHOOSE i \in DOMAIN ts :
            tr[ts[i]].rank >= k /\ \A j \in 1..(i - 1) : tr[ts[j]].rank < k]
  ELSE NULL

\* the list ts is wired as a root list: prev mirrors next
Wired(tr, ts) ==
  \A i \in DOMAIN ts : tr[ts[i]].prev = IF i = 1 THEN NULL ELSE ts[i - 1]

\* what merge_into(L, H) owes when it is called on memory m: Ls and Hs are
\* the root lists before the call, m1 the memory and rl the list of H after
Merged(m, Ls, Hs, m1, rl) ==
  /\ m1.fault = "none"
  /\ Len(rl) = Len(Ls) + Len(Hs)
  /\ {rl[i] : i \in DOMAIN rl} = {Ls[i] : i \in DOMAIN Ls} \cup {Hs[i] : i \in DOMAIN Hs}
  /\ RanksNondecreasing(m1.tree, rl) /\ Wired(m1.tree, rl)
  /\ \A i \in DOMAIN rl :
       rl[i] \in {Ls[k] : k \in DOMAIN Ls} =>
         \E j \in (i + 1)..Len(rl) :
           /\ rl[j] = FirstOfRank(m.tree, Hs, m.tree[rl[i]].rank)
           /\ \A k \in (i + 1)..(j - 1) : rl[k] \in {Ls[n] : n \in DOMAIN Ls}

\* C29: every merge_into(L, H) that meld calls, with L.rank <= H.rank, runs
\* without walking off the end of the root list of H, and leaves in H a wired
\* root list of all the trees of L and H, ranks never falling, in which each
\* tree of L stands before the first tree of H of its rank or more with only
\* trees of L in between
C29_MergeInto ==
  Running =>
    \A c \in MergeCalls :
      Merged(c.m, RootList(c.m, c.L), RootList(c.m, c.H),
             merge_into(c.m, c.L, c.H), RootList(merge_into(c.m, c.L, c.H), c.H))

\* a meld of a heap of rank 0 into a heap of rank 1 has put the tree of the
\* first before the tree of the second, with nothing to combine
C29_Witness ==
  /\ Running /\ last.op = "meld" /\ Live(last.res)
  /\ last.freed.trees = 0
  /\ BagSize(last.pre) = 3
  /\ RanksOf(Mem, last.res) = <<0, 1>>
\* the trees of a root list from T on, and the number of trees of rank k in ts
ListFrom(m, T) == RootListFrom(m.tree, T, Cardinality(TreeIds))
OfRank(m, ts, k) == Cardinality({i \in DOMAIN ts : m.tree[ts[i]].rank = k})

\* what holds of the root list of Q at the head of an iteration of the loop
LoopListOk(m, Q) ==
  /\ RanksNondecreasing(m.tree, RootList(m, Q))
  /\ \A T \in TreesOf(m, Q) : OfRank(m, RootList(m, Q), m.tree[T].rank) <= 3

\* sts[i] has three trees of one rank at curr: the next iteration stands on
\* the second and combines it with the third, and the first is in the list
\* the loop leaves, with the root and the rank it had
ThreeHandled(sts, i, Q, smaller_rank, r) ==
  LET m   == sts[i].m
      one == sts[i].curr
      two == m.tree[one].next
      thr == m.tree[two].next
  IN  /\ i + 2 <= Len(sts)
      /\ sts[i + 1].m = m /\ sts[i + 1].curr = two
      /\ LoopCase(m, two, smaller_rank) = "carry"
      /\ sts[i + 2].curr = two
      /\ sts[i + 2].m.tree[two].root
           = <<combine(m.tree[two].root[1], m.tree[thr].root[1], r)>>
      /\ ~sts[i + 2].m.tree[thr].alloc
      /\ one \in TreesOf(sts[Len(sts)].m, Q)
      /\ sts[Len(sts)].m.tree[one].root = m.tree[one].root
      /\ sts[Len(sts)].m.tree[one].rank = m.tree[one].rank

\* sts[i] is where the loop breaks: it is the last iteration and the trees
\* after curr have ranks that differ from one another
BreakHandled(sts, i) ==
  /\ i = Len(sts)
  /\ \A T \in {t \in TreeIds : \E k \in DOMAIN ListFrom(sts[i].m, sts[i].m.tree[sts[i].curr].next) :
                    ListFrom(sts[i].m, sts[i].m.tree[sts[i].curr].next)[k] = t} :
       OfRank(sts[i].m, ListFrom(sts[i].m, sts[i].m.tree[sts[i].curr].next),
              sts[i].m.tree[T].rank) = 1

LoopOk(c, sts) ==
  /\ repeated_combine_loop(c.m, c.Q, c.m.heap[c.Q].first, c.smaller_rank, c.r)
       = sts[Len(sts)]
  /\ \A i \in DOMAIN sts :
       /\ LoopListOk(sts[i].m, c.Q)
       /\ LoopCase(sts[i].m, sts[i].curr, c.smaller_rank) = "three"
            => ThreeHandled(sts, i, c.Q, c.smaller_rank, c.r)
       /\ LoopCase(sts[i].m, sts[i].curr, c.smaller_rank) = "break"
            => BreakHandled(sts, i)

\* C30: in every repeated_combine that meld calls, at the head of every
\* iteration of the loop the ranks along the root list never fall and no
\* rank is held by more than three trees; where three trees share the rank
\* of curr the first stays as it is and the second and third are combined;
\* and where the loop breaks at a tree of rank above the smaller heap's rank
\* no two trees after it have the same rank
C30_RepeatedCombineLoop ==
  Running => \A c \in LoopCalls : LoopOk(c, LoopStatesOf(c))

\* a meld of two heaps of ranks 0 and 1 each has met three trees of rank 1
\* after its first carry: the first of them is still the first tree, with
\* its two items, and the other two make the tree of rank 2
C30_Witness ==
  /\ Running /\ last.op = "meld" /\ Live(last.res)
  /\ last.freed.trees = 2
  /\ RanksOf(Mem, last.res) = <<1, 2>>
  /\ BagSize(BagOf(NodeItems(tree[RootList(Mem, last.res)[1]].root[1]))) = 2
Children(x) ==
  (IF x.left = NULLNODE THEN {} ELSE {x.left[1]})
  \cup (IF x.right = NULLNODE THEN {} ELSE {x.right[1]})

\* C32: in every heap at rest the rank of each tree is the rank of its root,
\* the nodes of rank 0 are as makenode built them and no node has a rank
\* below 0, every child has the rank of its parent less one, and every
\* combine that a meld or an insert runs is given two roots of one rank
C32_RankConsistency ==
  Running =>
    /\ \A h \in LiveShells :
         /\ \A T \in TreesOf(Mem, h) : tree[T].rank = tree[T].root[1].rank
         /\ \A x \in HeapNodes(Mem, h) :
              /\ x.rank >= 0 /\ (x.rank = 0 => x = makenode(x.ckey))
              /\ \A y \in Children(x) : y.rank = x.rank - 1
    /\ \A z \in CombineSifts : z.left[1].rank = z.right[1].rank

\* a meld has built a tree of rank 2 whose root still has a child
C32_Witness ==
  /\ Running /\ last.op = "meld" /\ Live(last.res)
  /\ \E T \in TreesOf(Mem, last.res) :
       tree[T].rank = 2 /\ Children(tree[T].root[1]) # {}
\* the live heaps that hold items, and the tree an extraction takes from
Stocked == {h \in LiveShells : ~empty(Mem, h)}
SufminTree(h) == tree[heap[h].first].sufmin

\* the root x is not repaired: it keeps more than half its size, or it is a
\* leaf that still holds an item
NoRepair(x) == 2 * x.nelems > x.size \/ (leaf(x) /\ x.nelems >= 1)

\* C33: an extraction whose root x, once the item is taken, holds more than
\* size/2 items or is a leaf with an item left, changes nothing but the item
\* list and nelems of x: every heap shell, every other tree and node, every
\* prev, next and sufmin pointer and every rank stay as they were
C33_NoRepairFrame ==
  Running =>
    \A h \in Stocked :
      NoRepair(extract_elem(tree[SufminTree(h)].root[1])) =>
        /\ extract_min_with_ckey(Mem, h).m
             = [Mem EXCEPT !.tree[SufminTree(h)].root =
                             <<extract_elem(tree[SufminTree(h)].root[1])>>]
        /\ extract_min(Mem, h).m = extract_min_with_ckey(Mem, h).m

\* an extraction has left the root of the only tree a leaf with items, at
\* half its size or less, under the ckey it had
C33_Witness ==
  /\ Running /\ Extracted
  /\ Len(RootList(Mem, last.res)) = 1
  /\ \E x \in Roots(Mem, last.res) :
       /\ leaf(x) /\ x.nelems >= 1 /\ 2 * x.nelems <= x.size
       /\ x.ckey = last.ckey /\ x.ckey = last.rootck
\* what a client can tell of heap h in memory m, whatever the addresses: its
\* rank, epsilon and r, and along the root list the rank and the root of
\* each tree and how far ahead its sufmin stands
PlaceIn(ts, T) == CHOOSE i \in DOMAIN ts : ts[i] = T
HeapView(m, h) ==
  [rank |-> m.heap[h].rank, epsilon |-> m.heap[h].epsilon, r |-> m.heap[h].r,
   trees |-> [i \in DOMAIN RootList(m, h) |->
                [rank |-> m.tree[RootList(m, h)[i]].rank,
                 root |-> m.tree[RootList(m, h)[i]].root,
                 sufmin |-> PlaceIn(RootList(m, h), m.tree[RootList(m, h)[i]].sufmin) - i]]]

\* the heap makeheap(elem, epsilon) builds, given the r it computes
SingletonView(elem, epsilon, r) ==
  [rank |-> 0, epsilon |-> epsilon, r |-> r,
   trees |-> <<[rank |-> 0, root |-> <<makenode(elem)>>, sufmin |-> 0]>>]

\* insert(P, elem) against meld(P, makeheap(elem, P->epsilon)) from memory m;
\* mk is the memory once the singleton s is built
InsertAsMeld(m, P, elem, s, mk) ==
  /\ mk.fault = "none" /\ meld(mk, P, s).m.fault = "none"
  /\ insert(m, P, elem).fault = "none"
  /\ HeapView(insert(m, P, elem), P) = HeapView(meld(mk, P, s).m, meld(mk, P, s).result)
  /\ empty(m, P) =>
       /\ HeapView(insert(m, P, elem), P) = HeapView(mk, s)
       /\ HeapView(insert(m, P, elem), P)
            = SingletonView(elem, m.heap[P].epsilon, m.heap[P].r)

\* C34: insert(P, elem) leaves in P the heap that meld(P, makeheap(elem,
\* P->epsilon)) returns; on an empty P that is the heap makeheap(elem,
\* epsilon) builds: one tree of rank 0, its root the one-item leaf of ckey
\* elem, its sufmin itself, heap rank 0, epsilon and r those of P
C34_InsertIsMeld ==
  Running =>
    \A h \in LiveShells : \A e \in Keys :
      InsertAsMeld(Mem, h, e, NewShell(heap),
                   makeheap(Mem, NewShell(heap), e, heap[h].epsilon))

\* an insert has gone the special way into a heap that was empty
C34_Witness ==
  /\ Running /\ last.op = "insert"
  /\ BagSize(last.pre) = 0
  /\ HeapView(Mem, last.res)
       = SingletonView(last.e, heap[last.res].epsilon, heap[last.res].r)
\* heap h has in memory m the epsilon and the r it has now
SameEps(m, h) ==
  /\ m.heap[h].status = "live"
  /\ m.heap[h].epsilon = heap[h].epsilon /\ m.heap[h].r = heap[h].r

\* C35: the epsilon and r of a heap are those makeheap_empty gave it: r is
\* get_r(epsilon), every insert and every extraction that returns leaves
\* both as they are, and the heap a meld returns is one of its two arguments
\* with the epsilon and r it had
C35_EpsilonFixed ==
  Running =>
    /\ \A h \in LiveShells :
         /\ heap[h].r = get_r(heap[h].epsilon)
         /\ \A e \in Keys : insert(Mem, h, e).fault = "none" /\ SameEps(insert(Mem, h, e), h)
         /\ ~empty(Mem, h) =>
              /\ extract_min(Mem, h).m.fault = "none"
              /\ SameEps(extract_min(Mem, h).m, h)
              /\ SameEps(extract_min_with_ckey(Mem, h).m, h)
    /\ \A pq \in MeldPairs :
         meld(Mem, pq[1], pq[2]).m.fault = "none" =>
           /\ meld(Mem, pq[1], pq[2]).result \in {pq[1], pq[2]}
           /\ SameEps(meld(Mem, pq[1], pq[2]).m, meld(Mem, pq[1], pq[2]).result)

\* a meld has returned a heap that holds items, having taken in a heap of
\* another epsilon
C35_Witness ==
  /\ Running /\ last.op = "meld" /\ Live(last.res)
  /\ last.eps # heap[last.res].epsilon
  /\ ~empty(Mem, last.res)
\* the cells reached from cell c along next, c first
RECURSIVE CellsFrom(_, _, _)
CellsFrom(pl, c, fuel) ==
  IF c = NULL \/ fuel = 0 THEN <<>>
  ELSE <<c>> \o CellsFrom(pl, pl.cell[c].next, fuel - 1)

\* the item list of the node at x: its cells and the elements in them
ListAt(pl, x) == CellsFrom(pl, pl.node[x].first, Cardinality(CellAddrs) + 1)
ItemsAt(pl, x) == [i \in DOMAIN ListAt(pl, x) |-> pl.cell[ListAt(pl, x)[i]].elem]

\* the node at address a with all below it, as the value the trees carry
RECURSIVE NodeAt(_, _, _)
NodeAt(pl, a, fuel) ==
  [left  |-> IF pl.node[a].left = NULL \/ fuel = 0 THEN NULLNODE
             ELSE <<NodeAt(pl, pl.node[a].left, fuel - 1)>>,
   right |-> IF pl.node[a].right = NULL \/ fuel = 0 THEN NULLNODE
             ELSE <<NodeAt(pl, pl.node[a].right, fuel - 1)>>,
   items |-> ItemsAt(pl, a), ckey |-> pl.node[a].ckey, rank |-> pl.node[a].rank,
   size |-> pl.node[a].size, nelems |-> pl.node[a].nelems]

\* the trees hold as values the nodes the pool holds at addresses
PoolMatches ==
  \A T \in TreeIds :
    IF tree[T].alloc
    THEN pool.rootof[T] # NULL /\ NodeAt(pool, pool.rootof[T], Cardinality(NodeAddrs)) = tree[T].root[1]
    ELSE pool.rootof[T] = NULL
\* how many root fields and child fields hold the address a
NodeRefs(pl, a) ==
  Cardinality({T \in TreeIds : pl.rootof[T] = a})
  + Cardinality({b \in NodeAddrs : pl.node[b].alloc /\ pl.node[b].left = a})
  + Cardinality({b \in NodeAddrs : pl.node[b].alloc /\ pl.node[b].right = a})

\* how many times the item lists of the live nodes run through cell c
CellRefs(pl, c) ==
  LET at(x) == {i \in DOMAIN ListAt(pl, x) : ListAt(pl, x)[i] = c}
      Sum[S \in SUBSET NodeAddrs] ==
        IF S = {} THEN 0
        ELSE LET x == CHOOSE y \in S : TRUE
             IN  (IF pl.node[x].alloc THEN Cardinality(at(x)) ELSE 0) + Sum[S \ {x}]
  IN  Sum[NodeAddrs]

\* how many times the root lists of the live heaps run through tree t
TreeRefs(m, t) ==
  LET at(h) == {i \in DOMAIN RootList(m, h) : RootList(m, h)[i] = t}
      Sum[S \in SUBSET ShellIds] ==
        IF S = {} THEN 0
        ELSE LET h == CHOOSE g \in S : TRUE
             IN  (IF m.heap[h].status = "live" THEN Cardinality(at(h)) ELSE 0) + Sum[S \ {h}]
  IN  Sum[ShellIds]

\* no pointer held by a live object of memory m and pool pl leads to a freed
\* object
NoDangling(m, pl) ==
  /\ \A h \in ShellIds : m.heap[h].status = "live" =>
       m.heap[h].first = NULL \/ m.tree[m.heap[h].first].alloc
  /\ \A t \in Allocated(m.tree) :
       /\ m.tree[t].prev = NULL \/ m.tree[m.tree[t].prev].alloc
       /\ m.tree[t].next = NULL \/ m.tree[m.tree[t].next].alloc
       /\ m.tree[t].sufmin # NULL /\ m.tree[m.tree[t].sufmin].alloc
       /\ NodeLive(pl, pl.rootof[t])
  /\ \A a \in NodeAddrs : pl.node[a].alloc =>
       /\ pl.node[a].left = NULL \/ NodeLive(pl, pl.node[a].left)
       /\ pl.node[a].right = NULL \/ NodeLive(pl, pl.node[a].right)
       /\ pl.node[a].first = NULL \/ CellLive(pl, pl.node[a].first)
       /\ pl.node[a].last = NULL \/ CellLive(pl, pl.node[a].last)
  /\ \A c \in CellAddrs : pl.cell[c].alloc =>
       /\ pl.cell[c].prev = NULL \/ CellLive(pl, pl.cell[c].prev)
       /\ pl.cell[c].next = NULL \/ CellLive(pl, pl.cell[c].next)

\* every live tree is in the root list of one live heap, every live node is
\* the root of one tree or a child of one node, every live cell is in the
\* list of one node, each once
OwnedOnce(m, pl) ==
  /\ \A t \in Allocated(m.tree) : TreeRefs(m, t) = 1
  /\ \A a \in NodeAddrs : pl.node[a].alloc => NodeRefs(pl, a) = 1
  /\ \A c \in CellAddrs : pl.cell[c].alloc => CellRefs(pl, c) = 1

\* the trees the loop of repeated_combine frees are allocated when it frees
\* them, and so is the tree an extraction takes its element from
FreesLive ==
  /\ \A c \in LoopCalls : \A i \in DOMAIN LoopStatesOf(c) :
       LoopCase(LoopStatesOf(c)[i].m, LoopStatesOf(c)[i].curr, c.smaller_rank) = "carry" =>
         /\ LoopStatesOf(c)[i].m.tree[LoopStatesOf(c)[i].curr].alloc
         /\ LoopStatesOf(c)[i].m.tree[LoopStatesOf(c)[i].m.tree[LoopStatesOf(c)[i].curr].next].alloc
  /\ \A h \in Stocked : tree[SufminTree(h)].alloc

\* C36: across any sequence of insert, meld and extract_min calls no call
\* reads, writes or frees a freed object (no access is invalid, at the tree
\* level or in the pool), once a call has returned no pointer of a live heap,
\* tree, node or cell leads to a freed object, and every live tree, node and
\* cell has exactly one owner
C36_MemorySafety ==
  /\ fault \notin {"useafterfree", "doublefree"}
  /\ pool.fault = "none"
  /\ Running =>
       /\ PoolMatches
       /\ NoDangling(Mem, pool)
       /\ OwnedOnce(Mem, pool)
       /\ FreesLive

\* a meld has returned in which repeated_combine freed a tree and sift freed
\* a leaf: a node of rank 1 is left with one child
C36_Witness ==
  /\ Running /\ last.op = "meld" /\ last.freed.trees >= 1 /\ Live(last.res)
  /\ \E a \in NodeAddrs :
       /\ pool.node[a].alloc /\ pool.node[a].rank = 1
       /\ (pool.node[a].left = NULL) # (pool.node[a].right = NULL)
\* C37: started from the same state, on any live heap, holding items or not,
\* extract_min and extract_min_with_ckey return the same element and leave
\* the same memory, the error exit included
C37_ExtractMinSame ==
  Running => \A h \in LiveShells :
    /\ extract_min(Mem, h).e = extract_min_with_ckey(Mem, h).e
    /\ extract_min(Mem, h).m = extract_min_with_ckey(Mem, h).m

\* extract_min has returned an element that travelled under a ckey above its
\* key, and the heap holds more items
C37_Witness ==
  /\ Running /\ last.op = "extract_min" /\ Live(last.h)
  /\ last.e < last.ckey /\ ~empty(Mem, last.h)
LiveNodes(pl) == {a \in NodeAddrs : pl.node[a].alloc}
RootNodes(pl) == {pl.rootof[T] : T \in {U \in TreeIds : pl.rootof[U] # NULL}}

\* the item list of every live node of pl is as its fields say: nelems cells
\* from first, the last of them last, and first, last and nelems = 0 go
\* together
ListsSound(pl) ==
  \A a \in LiveNodes(pl) :
    /\ pl.node[a].nelems = Len(ListAt(pl, a))
    /\ (pl.node[a].first = NULL) = (pl.node[a].last = NULL)
    /\ (pl.node[a].last = NULL) = (pl.node[a].nelems = 0)
    /\ pl.node[a].first # NULL => pl.node[a].last = ListAt(pl, a)[Len(ListAt(pl, a))]

\* the calls moveList(src, dst) a state admits: between two live nodes of
\* the pool as it is, from a child into its parent once extract_elem has
\* taken an item from the parent, and from a root into the node combine has
\* just made over it
MoveCalls ==
  {[pl |-> pool, src |-> sd[1], dst |-> sd[2]] :
     sd \in {x \in LiveNodes(pool) \X LiveNodes(pool) :
               x[1] # x[2] /\ pool.node[x[1]].first # NULL}}
  \cup
  {[pl |-> extract_elem_at(pool, a), src |-> pool.node[a].left, dst |-> a] :
     a \in {b \in RootNodes(pool) : pool.node[b].left # NULL /\ pool.node[b].first # NULL}}
  \cup
  {[pl |-> combine_node_at(pool, xy[1], xy[2], 0), src |-> xy[1],
    dst |-> combine_node_at(pool, xy[1], xy[2], 0).ret] :
     xy \in {x \in RootNodes(pool) \X RootNodes(pool) : x[1] # x[2]}}

\* moveList has appended the list of src to that of dst
Moved(c, after) ==
  /\ after.fault = "none"
  /\ ListAt(after, c.dst) = ListAt(c.pl, c.dst) \o ListAt(c.pl, c.src)
  /\ ItemsAt(after, c.dst) = ItemsAt(c.pl, c.dst) \o ItemsAt(c.pl, c.src)
  /\ after.node[c.dst].nelems = c.pl.node[c.dst].nelems + c.pl.node[c.src].nelems
  /\ after.node[c.src].nelems = 0
  /\ after.node[c.src].first = NULL /\ after.node[c.src].last = NULL
  /\ ListsSound(after)

\* C38: between public operations the nelems of every node is the length of
\* its item list and first is NULL exactly when last is NULL exactly when
\* nelems is 0; moveList(src, dst) puts the items of src after those of dst,
\* adds src->nelems to dst->nelems and leaves src with nelems 0 and NULL
\* first and last
C38_ItemLists ==
  Running =>
    /\ pool.fault = "none"
    /\ ListsSound(pool)
    /\ \A T \in Allocated(tree) :
         tree[T].root[1].items = ItemsAt(pool, pool.rootof[T])
    /\ \A c \in MoveCalls : Moved(c, moveList_at(c.pl, c.src, c.dst))

\* an extraction has returned and a node holds two items or more, moved into
\* it by moveList, between distinct first and last cells
C38_Witness ==
  /\ Running /\ Extracted
  /\ \E a \in LiveNodes(pool) :
       /\ pool.node[a].nelems >= 2 /\ pool.node[a].first # pool.node[a].last
       /\ pool.node[a].rank >= 1
====
